---- MODULE Spec2Model ----
(***************************************************************************)
(* One rank's view of torchrec/distributed/comm_ops.py: the collective     *)
(* entry points, the Request handle, the Req/Wait autograd primitives of   *)
(* every collective shape and the process-wide gradient-division flag.     *)
(*                                                                         *)
(* A Python list indexed by rank is a function over 0..W-1.  A dist.Work   *)
(* returned by an async collective is an index into works; the index 0 is  *)
(* Python's None.  A gradient value is the exact rational num/den, so that *)
(* Tensor.div_ is exact.                                                   *)
(***************************************************************************)
EXTENDS Integers, Sequences, FiniteSets, TLC

VARIABLES
    GRADIENT_DIVISION,  \* the module global
    lastSet,            \* argument of the latest set_gradient_division call
    pc,                 \* where the rank's single thread of control is
    call,               \* arguments of the current entry-point invocation
    ret,                \* the Awaitable the entry point returned
    myreq,              \* the Request handle of the invocation
    works,              \* the collectives issued to the process group
    graph,              \* autograd nodes recorded by the forward pass
    result,             \* what wait() returned
    grad,               \* what the Req primitive's backward returned
    err,                \* the exception that ended the invocation, if any
    prev                \* an earlier invocation's gradient, kept to compare

vars == <<GRADIENT_DIVISION, lastSet, pc, call, ret, myreq, works, graph,
          result, grad, err, prev>>

---------------------------------------------------------------------------
\* Bounds of the model.

MaxBatch == 2
MaxGrad == 2

WorldSizes == {1, 2, 3}
BatchSizes == 1..MaxBatch
DimSums == {1, 2}
FeatureBatches == {1, 2}
SequenceSplits == {1, 2}
GradVals == 1..MaxGrad

---------------------------------------------------------------------------
\* Values.

NoReq == 0

NoTensor == [kind |-> "None"]

NoInfo == [type |-> "None"]

NoCodecs == [kind |-> "None"]

CodecKinds == {"identity", "pad2"}

\* A codec pair whose encode, decode and calc_quantized_size change nothing.
IdentityCodecs ==
    [kind |-> "QuantizedCommCodecs", forward |-> "identity",
     backward |-> "identity"]

CodecChoices ==
    {NoCodecs, IdentityCodecs,
     [kind |-> "QuantizedCommCodecs", forward |-> "pad2", backward |-> "identity"],
     [kind |-> "QuantizedCommCodecs", forward |-> "identity", backward |-> "pad2"]}

NoCall == [entry |-> "None"]

NoRet == [kind |-> "None"]

NoGrad == [kind |-> "None"]

NoPrev == [kind |-> "None"]

\* An Optional[List[int]].
NoList == [kind |-> "None"]

List(l) == [kind |-> "List", list |-> l]

RECURSIVE SumTo(_, _)
SumTo(f, n) == IF n < 0 THEN 0 ELSE f[n] + SumTo(f, n - 1)

\* Python's sum() of a list indexed from 0.
Sum(f) == SumTo(f, Cardinality(DOMAIN f) - 1)

\* A quantized codec's size function: this one pads a payload to an even
\* number of elements; "identity" leaves the size alone.
calc_quantized_size(codec, n) ==
    IF codec = "pad2" THEN 2 * ((n + 1) \div 2) ELSE n

\* codec.decode of a received buffer: the elements the peers encoded, whose
\* count is the sum of the element-unit output splits.
decoded_numel(output_splits) == Sum(output_splits)

\* The buffer a collective fills, as held in Request.tensor.
Buf(work, numel) == [kind |-> "Buf", work |-> work, numel |-> numel]

\* dist.Work.wait()
WorkWait(wk, i) == [wk EXCEPT ![i].waits = @ + 1]

\* A faulty division: by two, whatever the divisor.
div_by_two(t, d) == [t EXCEPT !.den = @ * 2]

\* Tensor.div_
div_(t, d) == [t EXCEPT !.den = @ * d]

Raise(e, rq, wk) ==
    [err |-> e, myreq |-> rq, works |-> wk, out |-> NoTensor, node |-> "None"]

Return(rq, wk, out, node) ==
    [err |-> "", myreq |-> rq, works |-> wk, out |-> out, node |-> node]

---------------------------------------------------------------------------
\* The gradient-division policy.

\* A faulty setter: the call leaves the flag as it was.
set_gradient_division_ignored(val) == GRADIENT_DIVISION

set_gradient_division(val) == val

get_gradient_division == GRADIENT_DIVISION

---------------------------------------------------------------------------
\* The Request handle.

NoRequest ==
    [made |-> FALSE, pg |-> [size |-> 0, rank |-> 0], req |-> NoReq,
     tensor |-> NoTensor, a2ai |-> NoInfo, qcomm_ctx |-> "None",
     rsi |-> NoInfo, agi |-> NoInfo, wait_function |-> "None",
     dummy_tensor |-> "None"]

Request(pg) ==
    [made |-> TRUE, pg |-> pg, req |-> NoReq, tensor |-> NoTensor,
     a2ai |-> NoInfo, qcomm_ctx |-> "None", rsi |-> NoInfo, agi |-> NoInfo,
     wait_function |-> "None", dummy_tensor |-> "dummy"]

---------------------------------------------------------------------------
\* Pooled all-to-all.

All2AllPooledInfo(batch_size_per_rank, dim_sum_per_rank, codecs) ==
    [type |-> "All2AllPooledInfo",
     batch_size_per_rank |-> batch_size_per_rank,
     dim_sum_per_rank |-> dim_sum_per_rank,
     codecs |-> codecs]

\* Variant: input splits that leave out the width of the local rows.
Pooled_forward_input_split_sizes_unscaled(a2ai, D_local_sum) ==
    [r \in DOMAIN a2ai.batch_size_per_rank |-> a2ai.batch_size_per_rank[r]]

\* Variant: the codec branch sizes every split one element larger.
Pooled_forward_output_split_sizes_padded(a2ai, B_local) ==
    [r \in DOMAIN a2ai.dim_sum_per_rank |->
        IF a2ai.codecs # NoCodecs
        THEN calc_quantized_size(a2ai.codecs.forward,
                                 B_local * a2ai.dim_sum_per_rank[r]) + 1
        ELSE B_local * a2ai.dim_sum_per_rank[r]]

\* The split sizes handed to the forward all_to_all_single.
Pooled_forward_output_split_sizes(a2ai, B_local) ==
    [r \in DOMAIN a2ai.dim_sum_per_rank |->
        IF a2ai.codecs # NoCodecs
        THEN calc_quantized_size(a2ai.codecs.forward,
                                 B_local * a2ai.dim_sum_per_rank[r])
        ELSE B_local * a2ai.dim_sum_per_rank[r]]

Pooled_forward_input_split_sizes(a2ai, D_local_sum) ==
    [r \in DOMAIN a2ai.batch_size_per_rank |->
        IF a2ai.codecs # NoCodecs
        THEN calc_quantized_size(a2ai.codecs.forward,
                                 D_local_sum * a2ai.batch_size_per_rank[r])
        ELSE D_local_sum * a2ai.batch_size_per_rank[r]]

All2All_Pooled_Req_forward(pg, rq, a2ai, input_embeddings, wk) ==
    LET my_rank == pg.rank
        B_global == input_embeddings.shape[1]
        D_local_sum == input_embeddings.shape[2]
        B_local == a2ai.batch_size_per_rank[my_rank]
        qcomm_ctx == IF a2ai.codecs # NoCodecs THEN "forward_ctx" ELSE "None"
        output_split_sizes == Pooled_forward_output_split_sizes(a2ai, B_local)
        input_split_sizes == Pooled_forward_input_split_sizes(a2ai, D_local_sum)
        req == Len(wk) + 1
        work == [coll |-> "all_to_all_single",
                 by |-> "All2All_Pooled_Req.forward",
                 async_op |-> TRUE,
                 output_split_sizes |-> output_split_sizes,
                 input_split_sizes |-> input_split_sizes,
                 numel |-> Sum(output_split_sizes),
                 waits |-> 0]
    IN  IF B_global # Sum(a2ai.batch_size_per_rank)
        THEN Raise("AssertionError", rq, wk)
        ELSE Return([rq EXCEPT !.req = req,
                               !.tensor = Buf(req, work.numel),
                               !.qcomm_ctx = qcomm_ctx,
                               !.a2ai = a2ai,
                               !.wait_function = "All2All_Pooled_Wait"],
                    Append(wk, work), rq.dummy_tensor, "All2All_Pooled_Req")

\* A faulty backward: it waits, then issues the dual collective once more.
All2All_Pooled_Req_backward_reissues(rq, wk, recv) ==
    IF rq.req = NoReq
    THEN Raise("AssertionError", rq, wk)
    ELSE Return([rq EXCEPT !.req = NoReq, !.tensor = NoTensor,
                           !.dummy_tensor = "None"],
                Append(WorkWait(wk, rq.req), wk[rq.req]),
                [kind |-> "Tensor", num |-> recv,
                 den |-> IF GRADIENT_DIVISION THEN rq.pg.size ELSE 1],
                "None")

All2All_Pooled_Req_backward(rq, wk, recv) ==
    LET a2ai == rq.a2ai
        my_rank == rq.pg.rank
        D_local_sum == a2ai.dim_sum_per_rank[my_rank]
        B_global == Sum(a2ai.batch_size_per_rank)
        grad_input == [kind |-> "Tensor", shape |-> <<B_global, D_local_sum>>,
                       num |-> recv, den |-> 1]
    IN  IF rq.req = NoReq
        THEN Raise("AssertionError", rq, wk)
        ELSE Return([rq EXCEPT !.req = NoReq, !.tensor = NoTensor,
                               !.dummy_tensor = "None"],
                    WorkWait(wk, rq.req),
                    IF GRADIENT_DIVISION
                    THEN div_(grad_input, rq.pg.size) ELSE grad_input,
                    "None")

All2All_Pooled_Wait_forward(pg, rq, wk) ==
    LET a2ai == rq.a2ai
        B_local == a2ai.batch_size_per_rank[pg.rank]
    IN  IF rq.req = NoReq
        THEN Raise("AssertionError", rq, wk)
        ELSE Return([rq EXCEPT !.req = NoReq, !.tensor = NoTensor],
                    WorkWait(wk, rq.req),
                    [kind |-> "Tensor", id |-> "result",
                     shape |-> <<B_local, Sum(a2ai.dim_sum_per_rank)>>],
                    "All2All_Pooled_Wait")

\* Faulty backward splits: the dim-weighted sizes of rank 0 for every peer.
Pooled_backward_input_split_sizes_rank0(a2ai, B_local) ==
    [r \in DOMAIN a2ai.dim_sum_per_rank |->
        B_local * a2ai.dim_sum_per_rank[0]]

\* The split sizes handed to the backward all_to_all_single.
Pooled_backward_input_split_sizes(a2ai, B_local) ==
    [r \in DOMAIN a2ai.dim_sum_per_rank |->
        IF a2ai.codecs # NoCodecs
        THEN calc_quantized_size(a2ai.codecs.backward,
                                 B_local * a2ai.dim_sum_per_rank[r])
        ELSE B_local * a2ai.dim_sum_per_rank[r]]

\* Variant: every peer is expected to send what rank 0 sends.
Pooled_backward_output_split_sizes_first(a2ai, D_local_sum) ==
    [r \in DOMAIN a2ai.batch_size_per_rank |->
        D_local_sum * a2ai.batch_size_per_rank[0]]

Pooled_backward_output_split_sizes(a2ai, D_local_sum) ==
    [r \in DOMAIN a2ai.batch_size_per_rank |->
        IF a2ai.codecs # NoCodecs
        THEN calc_quantized_size(a2ai.codecs.backward,
                                 D_local_sum * a2ai.batch_size_per_rank[r])
        ELSE D_local_sum * a2ai.batch_size_per_rank[r]]

All2All_Pooled_Wait_backward(rq, wk, grad_output) ==
    LET a2ai == rq.a2ai
        my_rank == rq.pg.rank
        D_local_sum == a2ai.dim_sum_per_rank[my_rank]
        B_local == grad_output.shape[1]
        D_global_sum == grad_output.shape[2]
        qcomm_ctx == IF a2ai.codecs # NoCodecs THEN "backward_ctx" ELSE "None"
        input_split_sizes == Pooled_backward_input_split_sizes(a2ai, B_local)
        output_split_sizes ==
            Pooled_backward_output_split_sizes(a2ai, D_local_sum)
        req == Len(wk) + 1
        work == [coll |-> "all_to_all_single",
                 by |-> "All2All_Pooled_Wait.backward",
                 async_op |-> TRUE,
                 output_split_sizes |-> output_split_sizes,
                 input_split_sizes |-> input_split_sizes,
                 numel |-> Sum(output_split_sizes),
                 waits |-> 0]
    IN  IF Sum(a2ai.dim_sum_per_rank) # D_global_sum
        THEN Raise("AssertionError", rq, wk)
        ELSE Return([rq EXCEPT !.req = req,
                               !.tensor = Buf(req, work.numel),
                               !.qcomm_ctx = qcomm_ctx],
                    Append(wk, work), rq.dummy_tensor, "None")

\* The synchronous twin: a functional collective, complete on return.
all2all_pooled_sync(pg, a2ai, input_embeddings, wk) ==
    LET my_rank == pg.rank
        B_global == input_embeddings.shape[1]
        D_local_sum == input_embeddings.shape[2]
        B_local == a2ai.batch_size_per_rank[my_rank]
        output_split_sizes == Pooled_forward_output_split_sizes(a2ai, B_local)
        input_split_sizes == Pooled_forward_input_split_sizes(a2ai, D_local_sum)
        work == [coll |-> "functional.all_to_all_single",
                 by |-> "all2all_pooled_sync",
                 async_op |-> FALSE,
                 output_split_sizes |-> output_split_sizes,
                 input_split_sizes |-> input_split_sizes,
                 numel |-> Sum(output_split_sizes),
                 waits |-> 1]
        \* decode gives back the element count of what the peers encoded;
        \* the buffer is then split by output_split_sizes, the sizes the
        \* transfer was issued with, and each chunk viewed as B_local rows.
        decoded == decoded_numel([r \in DOMAIN a2ai.dim_sum_per_rank |->
                                     B_local * a2ai.dim_sum_per_rank[r]])
        columns == [r \in DOMAIN output_split_sizes |->
                       output_split_sizes[r] \div B_local]
    IN  IF B_global # Sum(a2ai.batch_size_per_rank)
        THEN Raise("AssertionError", NoRequest, wk)
        ELSE IF Sum(output_split_sizes) # decoded
                \/ \E r \in DOMAIN output_split_sizes :
                      output_split_sizes[r] % B_local # 0
        THEN Raise("RuntimeError", NoRequest, Append(wk, work))
        ELSE Return(NoRequest, Append(wk, work),
                    [kind |-> "Tensor", id |-> "result",
                     shape |-> <<B_local, Sum(columns)>>],
                    "None")

\* A table without the all-to-all formula.
c10d_functional_autograd_ops_partial(coll) ==
    CASE coll = "functional.reduce_scatter_tensor" -> "_ReduceScatterTensor"
      [] coll = "functional.all_gather_tensor" -> "_AllGatherIntoTensor"
      [] OTHER -> "None"

\* The autograd formulas the module registers for the functional
\* collectives when it is imported: calling one of them on a tensor that
\* requires grad records the backward node of the matching Function.
c10d_functional_autograd_ops(coll) ==
    CASE coll = "functional.all_to_all_single" -> "_All2AllSingle"
      [] coll = "functional.reduce_scatter_tensor" -> "_ReduceScatterTensor"
      [] coll = "functional.all_gather_tensor" -> "_AllGatherIntoTensor"
      [] OTHER -> "None"

\* What an entry point hands back: the awaitable, the handle and the works.
\* A synchronous twin's result carries the node of the functional collective
\* it called.
NoWait(obj, r) ==
    [err |-> r.err, works |-> r.works, myreq |-> NoRequest,
     node |-> IF r.err = "" /\ r.works # <<>>
              THEN c10d_functional_autograd_ops(r.works[Len(r.works)].coll)
              ELSE "None",
     ret |-> IF r.err = "" THEN [kind |-> "NoWait", obj |-> obj] ELSE NoRet]

Async(r) ==
    [err |-> r.err, works |-> r.works, myreq |-> r.myreq, node |-> r.node,
     ret |-> IF r.err = "" THEN [kind |-> "Request"] ELSE NoRet]

alltoall_pooled(c) ==
    LET group == c.group
        a2ai == All2AllPooledInfo(c.batch_size_per_rank, c.dim_sum_per_rank,
                                  c.codecs)
    IN  IF group.size <= 1
        THEN NoWait(c.input, Return(NoRequest, <<>>, NoTensor, "None"))
        ELSE IF c.compiling
        THEN LET r == all2all_pooled_sync(group, a2ai, c.input, <<>>)
             IN  NoWait(r.out, r)
        ELSE Async(All2All_Pooled_Req_forward(group, Request(group), a2ai,
                                              c.input, <<>>))

---------------------------------------------------------------------------
\* Helpers shared by the Req/Wait primitives.

\* A faulty issue: the collective is waited on before it is handed back.
Work_blocking(coll, by, output_split_sizes, input_split_sizes, numel) ==
    [coll |-> coll, by |-> by, async_op |-> TRUE,
     output_split_sizes |-> output_split_sizes,
     input_split_sizes |-> input_split_sizes,
     numel |-> numel, waits |-> 1]

Work(coll, by, output_split_sizes, input_split_sizes, numel) ==
    [coll |-> coll, by |-> by, async_op |-> TRUE,
     output_split_sizes |-> output_split_sizes,
     input_split_sizes |-> input_split_sizes,
     numel |-> numel, waits |-> 0]

SyncWork(coll, by, output_split_sizes, input_split_sizes, numel) ==
    [coll |-> coll, by |-> by, async_op |-> FALSE,
     output_split_sizes |-> output_split_sizes,
     input_split_sizes |-> input_split_sizes,
     numel |-> numel, waits |-> 1]

\* myreq.req = req; myreq.tensor = <the buffer the collective fills>
Pending(rq, wk, work) ==
    [rq EXCEPT !.req = Len(wk) + 1, !.tensor = Buf(Len(wk) + 1, work.numel)]

\* A tensor no permute kernel has moved.
NoPermute == [op |-> "None"]

Gradient(numel, recv) ==
    [kind |-> "Tensor", numel |-> numel, num |-> recv, den |-> 1,
     permuted |-> NoPermute]

Output(numel) == [kind |-> "Tensor", id |-> "result", numel |-> numel]

\* isinstance(myreq.req, dist.Work): an async collective returns a Work.
isinstance_Work(req) == req # NoReq

---------------------------------------------------------------------------
\* Variable-batch pooled all-to-all.

VariableBatchAll2AllPooledInfo(batch_size_per_rank_per_feature, batch_size_per_feature_pre_a2a, emb_dim_per_rank_per_feature, codecs) ==
    [type |-> "VariableBatchAll2AllPooledInfo",
     batch_size_per_rank_per_feature |-> batch_size_per_rank_per_feature,
     batch_size_per_feature_pre_a2a |-> batch_size_per_feature_pre_a2a,
     emb_dim_per_rank_per_feature |-> emb_dim_per_rank_per_feature,
     codecs |-> codecs,
     input_splits |-> NoList,
     output_splits |-> NoList]

\* Python's zip() stops at the shorter list.
ZipDot(batch_sizes, emb_dims) ==
    LET n == IF Cardinality(DOMAIN batch_sizes) < Cardinality(DOMAIN emb_dims)
             THEN Cardinality(DOMAIN batch_sizes)
             ELSE Cardinality(DOMAIN emb_dims)
    IN  Sum([f \in 0..(n - 1) |-> batch_sizes[f] * emb_dims[f]])

\* [codec.calc_quantized_size(split, ctx) for split in splits]
Quantized(codec, splits) ==
    [r \in DOMAIN splits |-> calc_quantized_size(codec, splits[r])]

\* "get input splits"
VariableBatch_input_split_sizes(a2ai, world_size, my_rank) ==
    [i \in 0..(world_size - 1) |->
        IF a2ai.batch_size_per_rank_per_feature # <<>>
        THEN ZipDot(a2ai.batch_size_per_rank_per_feature[i],
                    a2ai.emb_dim_per_rank_per_feature[my_rank])
        ELSE 0]

\* Variant: ind starts again at 0 for every rank.
VariableBatch_output_split_sizes_restart(a2ai, world_size) ==
    LET emb == a2ai.emb_dim_per_rank_per_feature
    IN  [i \in 0..(world_size - 1) |->
            Sum([f \in DOMAIN emb[i] |->
                    a2ai.batch_size_per_feature_pre_a2a[f] * emb[i][f]])]

\* "get output splits": ind runs over the features of all ranks in order.
VariableBatch_output_split_sizes(a2ai, world_size) ==
    LET emb == a2ai.emb_dim_per_rank_per_feature
        ind(i) == Sum([j \in 0..(i - 1) |-> Cardinality(DOMAIN emb[j])])
    IN  [i \in 0..(world_size - 1) |->
            Sum([f \in DOMAIN emb[i] |->
                    a2ai.batch_size_per_feature_pre_a2a[ind(i) + f]
                        * emb[i][f]])]

Variable_Batch_All2All_Pooled_Req_forward(pg, rq, a2ai, input_embeddings, wk) ==
    LET my_rank == pg.rank
        world_size == pg.size
        input_splits == VariableBatch_input_split_sizes(a2ai, world_size,
                                                        my_rank)
        output_splits == VariableBatch_output_split_sizes(a2ai, world_size)
        qcomm_ctx == IF a2ai.codecs # NoCodecs THEN "forward_ctx" ELSE "None"
        output_split_sizes ==
            IF a2ai.codecs # NoCodecs
            THEN Quantized(a2ai.codecs.forward, output_splits)
            ELSE output_splits
        input_split_sizes ==
            IF a2ai.codecs # NoCodecs
            THEN Quantized(a2ai.codecs.forward, input_splits)
            ELSE input_splits
        work == Work("all_to_all_single",
                     "Variable_Batch_All2All_Pooled_Req.forward",
                     output_split_sizes, input_split_sizes,
                     Sum(output_split_sizes))
    IN  Return([Pending(rq, wk, work) EXCEPT
                    !.qcomm_ctx = qcomm_ctx,
                    !.a2ai = [a2ai EXCEPT
                                 !.input_splits = List(input_splits),
                                 !.output_splits = List(output_splits)],
                    !.wait_function = "Variable_Batch_All2All_Pooled_Wait"],
               Append(wk, work), rq.dummy_tensor,
               "Variable_Batch_All2All_Pooled_Req")

Variable_Batch_All2All_Pooled_Req_backward(rq, wk, recv) ==
    IF rq.req = NoReq
    THEN Raise("AssertionError", rq, wk)
    ELSE LET wk1 == WorkWait(wk, rq.req)
             wk2 == IF isinstance_Work(rq.req) THEN WorkWait(wk1, rq.req)
                    ELSE wk1
             grad_input == Gradient(rq.tensor.numel, recv)
         IN  Return([rq EXCEPT !.req = NoReq, !.tensor = NoTensor,
                                !.dummy_tensor = "None"],
                     wk2,
                     IF GRADIENT_DIVISION
                     THEN div_(grad_input, rq.pg.size) ELSE grad_input,
                     "None")

Variable_Batch_All2All_Pooled_Wait_forward(pg, rq, wk) ==
    IF rq.req = NoReq
    THEN Raise("AssertionError", rq, wk)
    ELSE Return([rq EXCEPT !.req = NoReq, !.tensor = NoTensor],
                IF isinstance_Work(rq.req) THEN WorkWait(wk, rq.req) ELSE wk,
                Output(IF rq.a2ai.codecs # NoCodecs
                       THEN decoded_numel(rq.a2ai.output_splits.list)
                       ELSE rq.tensor.numel),
                "Variable_Batch_All2All_Pooled_Wait")

\* Variant: the backward collective keeps the forward orientation of the
\* stored lists.
Variable_Batch_All2All_Pooled_Wait_backward_unswapped(rq, wk, grad_output) ==
    LET a2ai == rq.a2ai
        input_split_sizes ==
            IF a2ai.codecs # NoCodecs
            THEN Quantized(a2ai.codecs.backward, a2ai.input_splits.list)
            ELSE a2ai.input_splits.list
        output_split_sizes ==
            IF a2ai.codecs # NoCodecs
            THEN Quantized(a2ai.codecs.backward, a2ai.output_splits.list)
            ELSE a2ai.output_splits.list
        work == Work("all_to_all_single",
                     "Variable_Batch_All2All_Pooled_Wait.backward",
                     output_split_sizes, input_split_sizes,
                     Sum(output_split_sizes))
    IN  Return(Pending(rq, wk, work), Append(wk, work), rq.dummy_tensor,
               "None")

Variable_Batch_All2All_Pooled_Wait_backward(rq, wk, grad_output) ==
    LET a2ai == rq.a2ai
        qcomm_ctx == IF a2ai.codecs # NoCodecs THEN "backward_ctx" ELSE "None"
        input_split_sizes ==
            IF a2ai.codecs # NoCodecs
            THEN Quantized(a2ai.codecs.backward, a2ai.output_splits.list)
            ELSE a2ai.output_splits.list
        output_split_sizes ==
            IF a2ai.codecs # NoCodecs
            THEN Quantized(a2ai.codecs.backward, a2ai.input_splits.list)
            ELSE a2ai.input_splits.list
        work == Work("all_to_all_single",
                     "Variable_Batch_All2All_Pooled_Wait.backward",
                     output_split_sizes, input_split_sizes,
                     Sum(output_split_sizes))
    IN  IF a2ai.input_splits = NoList \/ a2ai.output_splits = NoList
        THEN Raise("AssertionError", rq, wk)
        ELSE Return([Pending(rq, wk, work) EXCEPT !.qcomm_ctx = qcomm_ctx],
                    Append(wk, work), rq.dummy_tensor, "None")

variable_batch_all2all_pooled_sync(pg, a2ai, input_embeddings, wk) ==
    LET my_rank == pg.rank
        world_size == pg.size
        input_splits == VariableBatch_input_split_sizes(a2ai, world_size,
                                                        my_rank)
        output_splits == VariableBatch_output_split_sizes(a2ai, world_size)
        output_split_sizes ==
            IF a2ai.codecs # NoCodecs
            THEN Quantized(a2ai.codecs.forward, output_splits)
            ELSE output_splits
        input_split_sizes ==
            IF a2ai.codecs # NoCodecs
            THEN Quantized(a2ai.codecs.forward, input_splits)
            ELSE input_splits
    IN  Return(NoRequest,
               Append(wk, SyncWork("functional.all_to_all_single",
                                   "variable_batch_all2all_pooled_sync",
                                   output_split_sizes, input_split_sizes,
                                   Sum(output_split_sizes))),
               Output(IF a2ai.codecs # NoCodecs
                      THEN decoded_numel(output_splits)
                      ELSE Sum(output_split_sizes)), "None")

variable_batch_alltoall_pooled(c) ==
    LET group == c.group
        a2ai == VariableBatchAll2AllPooledInfo(
                    c.batch_size_per_rank_per_feature,
                    c.batch_size_per_feature_pre_a2a,
                    c.emb_dim_per_rank_per_feature, c.codecs)
    IN  IF group.size <= 1
        THEN NoWait(c.input, Return(NoRequest, <<>>, NoTensor, "None"))
        ELSE IF c.compiling
        THEN LET r == variable_batch_all2all_pooled_sync(group, a2ai, c.input,
                                                         <<>>)
             IN  NoWait(r.out, r)
        ELSE Async(Variable_Batch_All2All_Pooled_Req_forward(
                       group, Request(group), a2ai, c.input, <<>>))

---------------------------------------------------------------------------
\* Sequence all-to-all.

\* An Optional[Tensor] of lengths.
NoLengths == [kind |-> "None"]

\* The lengths tensor handed to alltoall_sequence: local_T rows.
Lengths(local_T) ==
    [kind |-> "Lengths", id |-> "lengths_after_sparse_data_all2all",
     rows |-> local_T, permuted_by |-> "None", dims |-> 1]

All2AllSequenceInfo(embedding_dim, lengths_after_sparse_data_all2all, input_splits, output_splits, variable_batch_size, codecs) ==
    [type |-> "All2AllSequenceInfo",
     embedding_dim |-> embedding_dim,
     lengths_after_sparse_data_all2all |-> lengths_after_sparse_data_all2all,
     forward_recat_tensor |-> "forward_recat_tensor",
     backward_recat_tensor |-> "backward_recat_tensor",
     input_splits |-> input_splits,
     output_splits |-> output_splits,
     variable_batch_size |-> variable_batch_size,
     codecs |-> codecs,
     permuted_lengths_after_sparse_data_all2all |-> NoLengths]

\* torch.ops.fbgemm.permute_2D_sparse_data(permute, lengths, values): the
\* permuted lengths (2-D) and the values, marked with the call that moved
\* them.
permute_2D_sparse_data(permute, lengths, values) ==
    [lengths |-> [lengths EXCEPT !.permuted_by = permute, !.dims = 2],
     values |-> [op |-> "permute_2D_sparse_data", permute |-> permute,
                 lengths |-> lengths]]

\* torch.ops.fbgemm.permute_1D_sparse_data(permute, lengths, values)
permute_1D_sparse_data(permute, lengths, values) ==
    [lengths |-> [lengths EXCEPT !.permuted_by = permute, !.dims = 1],
     values |-> [op |-> "permute_1D_sparse_data", permute |-> permute,
                 lengths |-> lengths]]

\* The forward permute of All2All_Seq_Req.forward and all2all_sequence_sync.
Seq_forward_permute(a2ai, sharded_input_embeddings) ==
    LET lengths == a2ai.lengths_after_sparse_data_all2all
        local_T == lengths.rows
    IN  IF local_T > 0
        THEN IF ~a2ai.variable_batch_size
             THEN permute_2D_sparse_data(a2ai.forward_recat_tensor, lengths,
                                         sharded_input_embeddings)
             ELSE permute_1D_sparse_data(a2ai.forward_recat_tensor, lengths,
                                         sharded_input_embeddings)
        ELSE [lengths |-> NoLengths, values |-> NoPermute]

\* [i * D for i in splits]
Scaled(splits, D) == [r \in DOMAIN splits |-> splits[r] * D]

All2All_Seq_Req_forward(pg, rq, a2ai, sharded_input_embeddings, wk) ==
    LET D == a2ai.embedding_dim
        input_splits == Scaled(a2ai.output_splits, D)
        output_splits == Scaled(a2ai.input_splits, D)
        qcomm_ctx == IF a2ai.codecs # NoCodecs THEN "forward_ctx" ELSE "None"
        output_split_sizes ==
            IF a2ai.codecs # NoCodecs
            THEN Quantized(a2ai.codecs.forward, output_splits)
            ELSE output_splits
        input_split_sizes ==
            IF a2ai.codecs # NoCodecs
            THEN Quantized(a2ai.codecs.forward, input_splits)
            ELSE input_splits
        work == Work("all_to_all_single", "All2All_Seq_Req.forward",
                     output_split_sizes, input_split_sizes,
                     Sum(output_split_sizes))
        permuted_lengths_after_sparse_data_all2all ==
            Seq_forward_permute(a2ai, sharded_input_embeddings).lengths
    IN  Return([Pending(rq, wk, work) EXCEPT
                    !.a2ai = [a2ai EXCEPT
                                 !.input_splits = input_splits,
                                 !.output_splits = output_splits,
                                 !.permuted_lengths_after_sparse_data_all2all =
                                     permuted_lengths_after_sparse_data_all2all],
                    !.wait_function = "All2All_Seq_Req_Wait",
                    !.qcomm_ctx = qcomm_ctx],
               Append(wk, work), rq.dummy_tensor, "All2All_Seq_Req")

\* Variant: the backward permute always takes the 2-D kernel.
All2All_Seq_Req_backward_2D(rq, wk, recv) ==
    IF rq.req = NoReq
    THEN Raise("AssertionError", rq, wk)
    ELSE LET a2ai == rq.a2ai
             permuted_lengths_after_sparse_data_all2all ==
                 a2ai.permuted_lengths_after_sparse_data_all2all
             received == Gradient(rq.tensor.numel, recv)
             sharded_grad_input ==
                 IF permuted_lengths_after_sparse_data_all2all # NoLengths
                 THEN [received EXCEPT !.permuted =
                          permute_2D_sparse_data(
                              a2ai.backward_recat_tensor,
                              permuted_lengths_after_sparse_data_all2all,
                              received).values]
                 ELSE received
         IN  Return([rq EXCEPT !.req = NoReq, !.tensor = NoTensor,
                                !.dummy_tensor = "None"],
                     WorkWait(wk, rq.req),
                     IF GRADIENT_DIVISION
                     THEN div_(sharded_grad_input, rq.pg.size)
                     ELSE sharded_grad_input,
                     "None")

All2All_Seq_Req_backward(rq, wk, recv) ==
    IF rq.req = NoReq
    THEN Raise("AssertionError", rq, wk)
    ELSE LET a2ai == rq.a2ai
             permuted_lengths_after_sparse_data_all2all ==
                 a2ai.permuted_lengths_after_sparse_data_all2all
             received == Gradient(rq.tensor.numel, recv)
             sharded_grad_input ==
                 IF permuted_lengths_after_sparse_data_all2all # NoLengths
                 THEN [received EXCEPT !.permuted =
                          IF ~a2ai.variable_batch_size
                          THEN permute_2D_sparse_data(
                                   a2ai.backward_recat_tensor,
                                   permuted_lengths_after_sparse_data_all2all,
                                   received).values
                          ELSE permute_1D_sparse_data(
                                   a2ai.backward_recat_tensor,
                                   permuted_lengths_after_sparse_data_all2all,
                                   received).values]
                 ELSE received
         IN  Return([rq EXCEPT !.req = NoReq, !.tensor = NoTensor,
                                !.dummy_tensor = "None"],
                     WorkWait(wk, rq.req),
                     IF GRADIENT_DIVISION
                     THEN div_(sharded_grad_input, rq.pg.size)
                     ELSE sharded_grad_input,
                     "None")

All2All_Seq_Req_Wait_forward(pg, rq, wk) ==
    IF rq.req = NoReq
    THEN Raise("AssertionError", rq, wk)
    ELSE Return([rq EXCEPT !.req = NoReq, !.tensor = NoTensor],
                WorkWait(wk, rq.req),
                Output(IF rq.a2ai.codecs # NoCodecs
                       THEN decoded_numel(rq.a2ai.output_splits)
                       ELSE rq.tensor.numel),
                "All2All_Seq_Req_Wait")

\* Variant: the backward transfer keeps the forward orientation.
All2All_Seq_Req_Wait_backward_unswapped(rq, wk, sharded_grad_output) ==
    LET a2ai == rq.a2ai
        input_splits == a2ai.input_splits
        output_splits == a2ai.output_splits
        output_split_sizes ==
            IF a2ai.codecs # NoCodecs
            THEN Quantized(a2ai.codecs.backward, output_splits)
            ELSE output_splits
        input_split_sizes ==
            IF a2ai.codecs # NoCodecs
            THEN Quantized(a2ai.codecs.backward, input_splits)
            ELSE input_splits
        work == Work("all_to_all_single", "All2All_Seq_Req_Wait.backward",
                     output_split_sizes, input_split_sizes,
                     Sum(output_split_sizes))
    IN  Return(Pending(rq, wk, work), Append(wk, work), rq.dummy_tensor,
               "None")

All2All_Seq_Req_Wait_backward(rq, wk, sharded_grad_output) ==
    LET a2ai == rq.a2ai
        input_splits == a2ai.output_splits
        output_splits == a2ai.input_splits
        qcomm_ctx == IF a2ai.codecs # NoCodecs THEN "backward_ctx" ELSE "None"
        output_split_sizes ==
            IF a2ai.codecs # NoCodecs
            THEN Quantized(a2ai.codecs.backward, output_splits)
            ELSE output_splits
        input_split_sizes ==
            IF a2ai.codecs # NoCodecs
            THEN Quantized(a2ai.codecs.backward, input_splits)
            ELSE input_splits
        work == Work("all_to_all_single", "All2All_Seq_Req_Wait.backward",
                     output_split_sizes, input_split_sizes,
                     Sum(output_split_sizes))
    IN  Return([Pending(rq, wk, work) EXCEPT !.qcomm_ctx = qcomm_ctx],
               Append(wk, work), rq.dummy_tensor, "None")

all2all_sequence_sync(pg, a2ai, sharded_input_embeddings, wk) ==
    LET D == a2ai.embedding_dim
        input_splits == Scaled(a2ai.output_splits, D)
        output_splits == Scaled(a2ai.input_splits, D)
        output_split_sizes ==
            IF a2ai.codecs # NoCodecs
            THEN Quantized(a2ai.codecs.forward, output_splits)
            ELSE output_splits
        input_split_sizes ==
            IF a2ai.codecs # NoCodecs
            THEN Quantized(a2ai.codecs.forward, input_splits)
            ELSE input_splits
    IN  Return(NoRequest,
               Append(wk, SyncWork("functional.all_to_all_single",
                                   "all2all_sequence_sync",
                                   output_split_sizes, input_split_sizes,
                                   Sum(output_split_sizes))),
               Output(IF a2ai.codecs # NoCodecs
                      THEN decoded_numel(output_splits)
                      ELSE Sum(output_split_sizes)), "None")

alltoall_sequence(c) ==
    LET group == c.group
        a2ai == All2AllSequenceInfo(c.input.shape[2],
                                    c.lengths_after_sparse_data_all2all,
                                    c.input_splits, c.output_splits,
                                    c.variable_batch_size, c.codecs)
    IN  IF group.size <= 1
        THEN NoWait(c.input, Return(NoRequest, <<>>, NoTensor, "None"))
        ELSE IF c.compiling
        THEN LET r == all2all_sequence_sync(group, a2ai, c.input, <<>>)
             IN  NoWait(r.out, r)
        ELSE Async(All2All_Seq_Req_forward(group, Request(group), a2ai,
                                           c.input, <<>>))

---------------------------------------------------------------------------
\* Vector all-to-all (alltoallv).

\* Variant: every rank takes the first rank's length.
_get_split_lengths_by_len_first(world_size, my_rank, n) ==
    LET k == n \div world_size
        m == n % world_size
        splits == [i \in 0..(world_size - 1) |->
                      IF m = 0 THEN k ELSE IF i < m THEN k + 1 ELSE k]
    IN  <<splits[0], splits>>

_get_split_lengths_by_len(world_size, my_rank, n) ==
    LET k == n \div world_size
        m == n % world_size
        splits == [i \in 0..(world_size - 1) |->
                      IF m = 0 THEN k ELSE IF i < m THEN k + 1 ELSE k]
        my_len == IF m = 0 THEN k ELSE splits[my_rank]
    IN  <<my_len, splits>>

All2AllVInfo(dims_sum_per_rank, B_local, B_local_list, D_local_list, B_global, codecs) ==
    [type |-> "All2AllVInfo",
     dims_sum_per_rank |-> dims_sum_per_rank,
     B_global |-> B_global,
     B_local |-> B_local,
     B_local_list |-> B_local_list,
     D_local_list |-> D_local_list,
     input_split_sizes |-> <<>>,
     output_split_sizes |-> <<>>,
     codecs |-> codecs]

All2Allv_Req_forward(pg, rq, a2ai, inputs, wk) ==
    LET input_split_sizes ==
            [r \in DOMAIN a2ai.B_local_list |->
                a2ai.B_local_list[r] * Sum(a2ai.D_local_list)]
        output_split_sizes ==
            [r \in DOMAIN a2ai.dims_sum_per_rank |->
                a2ai.B_local * a2ai.dims_sum_per_rank[r]]
        work == Work("all_to_all_single", "All2Allv_Req.forward",
                     output_split_sizes, input_split_sizes,
                     Sum(output_split_sizes))
    IN  Return([Pending(rq, wk, work) EXCEPT
                    !.wait_function = "All2Allv_Wait",
                    !.a2ai = [a2ai EXCEPT
                                 !.input_split_sizes = input_split_sizes,
                                 !.output_split_sizes = output_split_sizes]],
               Append(wk, work), rq.dummy_tensor, "All2Allv_Req")

All2Allv_Req_backward(rq, wk, recv) ==
    IF rq.req = NoReq
    THEN Raise("AttributeError", rq, wk)
    ELSE Return([rq EXCEPT !.req = NoReq, !.tensor = NoTensor,
                           !.dummy_tensor = "None"],
                WorkWait(wk, rq.req),
                Gradient(rq.tensor.numel, recv),
                "None")

All2Allv_Wait_forward(pg, rq, wk) ==
    IF rq.req = NoReq
    THEN Raise("AssertionError", rq, wk)
    ELSE Return([rq EXCEPT !.req = NoReq, !.tensor = NoTensor],
                WorkWait(wk, rq.req), Output(rq.tensor.numel),
                "All2Allv_Wait")

\* Variant: the gradient buffer is sized by the local batch.
All2Allv_Wait_backward_local(rq, wk, grad_outputs) ==
    LET a2ai == rq.a2ai
        work == Work("all_to_all_single", "All2Allv_Wait.backward",
                     a2ai.input_split_sizes, a2ai.output_split_sizes,
                     a2ai.B_local * Sum(a2ai.D_local_list))
    IN  Return(Pending(rq, wk, work), Append(wk, work), rq.dummy_tensor,
               "None")

All2Allv_Wait_backward(rq, wk, grad_outputs) ==
    LET a2ai == rq.a2ai
        work == Work("all_to_all_single", "All2Allv_Wait.backward",
                     a2ai.input_split_sizes, a2ai.output_split_sizes,
                     a2ai.B_global * Sum(a2ai.D_local_list))
    IN  Return(Pending(rq, wk, work), Append(wk, work), rq.dummy_tensor,
               "None")

all2allv_sync(pg, a2ai, inputs, wk) ==
    LET input_split_sizes ==
            [r \in DOMAIN a2ai.B_local_list |->
                a2ai.B_local_list[r] * Sum(a2ai.D_local_list)]
        output_split_sizes ==
            [r \in DOMAIN a2ai.dims_sum_per_rank |->
                a2ai.B_local * a2ai.dims_sum_per_rank[r]]
    IN  Return(NoRequest,
               Append(wk, SyncWork("functional.all_to_all_single",
                                   "all2allv_sync", output_split_sizes,
                                   input_split_sizes,
                                   Sum(output_split_sizes))),
               Output(Sum(output_split_sizes)), "None")

\* An entry point that creates the handle before it looks at the splits.
alltoallv_late(c) ==
    LET group == c.group
        world_size == group.size
        my_rank == group.rank
        B_global == c.B_global
        D_local_list == c.D_local_list
        lens == _get_split_lengths_by_len(world_size, my_rank, B_global)
        B_local == lens[1]
        B_local_list == lens[2]
        dims_sum_per_rank ==
            IF c.out_split # NoList
            THEN c.out_split.list
            ELSE [r \in DOMAIN c.per_rank_split_lengths.list |->
                     c.per_rank_split_lengths.list[r] * D_local_list[0]]
    IN  IF c.out_split = NoList /\ c.per_rank_split_lengths = NoList
        THEN Async(Raise("RuntimeError", Request(group), <<>>))
        ELSE LET a2ai == All2AllVInfo(dims_sum_per_rank, B_local,
                                      B_local_list, D_local_list, B_global,
                                      c.codecs)
             IN  IF c.compiling
                 THEN LET r == all2allv_sync(group, a2ai, c, <<>>)
                      IN  NoWait(r.out, r)
                 ELSE Async(All2Allv_Req_forward(group, Request(group), a2ai,
                                                 c, <<>>))

alltoallv(c) ==
    LET group == c.group
        world_size == group.size
        my_rank == group.rank
        B_global == c.B_global
        D_local_list == c.D_local_list
        lens == _get_split_lengths_by_len(world_size, my_rank, B_global)
        B_local == lens[1]
        B_local_list == lens[2]
        dims_sum_per_rank ==
            IF c.out_split # NoList
            THEN c.out_split.list
            ELSE [r \in DOMAIN c.per_rank_split_lengths.list |->
                     c.per_rank_split_lengths.list[r] * D_local_list[0]]
    IN  IF c.out_split = NoList /\ c.per_rank_split_lengths = NoList
        THEN Async(Raise("RuntimeError", NoRequest, <<>>))
        ELSE LET a2ai == All2AllVInfo(dims_sum_per_rank, B_local,
                                      B_local_list, D_local_list, B_global,
                                      c.codecs)
             IN  IF c.compiling
                 THEN LET r == all2allv_sync(group, a2ai, c, <<>>)
                      IN  NoWait(r.out, r)
                 ELSE Async(All2Allv_Req_forward(group, Request(group), a2ai,
                                                 c, <<>>))

---------------------------------------------------------------------------
\* Reduce-scatter over a list of tensors.

ReduceScatterInfo(input_sizes, codecs) ==
    [type |-> "ReduceScatterInfo", input_sizes |-> input_sizes,
     codecs |-> codecs]

ReduceScatter_Req_forward(pg, rq, rsi, inputs, wk) ==
    LET my_rank == pg.rank
        work == Work("reduce_scatter", "ReduceScatter_Req.forward",
                     <<>>, <<>>, inputs[my_rank])
    IN  Return([Pending(rq, wk, work) EXCEPT
                    !.wait_function = "ReduceScatter_Wait",
                    !.rsi = rsi],
               Append(wk, work), rq.dummy_tensor, "ReduceScatter_Req")

ReduceScatter_Req_backward(rq, wk, recv) ==
    IF rq.req = NoReq
    THEN Raise("AssertionError", rq, wk)
    ELSE LET grad_inputs == Gradient(rq.tensor.numel, recv)
         IN  Return([rq EXCEPT !.req = NoReq, !.tensor = NoTensor],
                     WorkWait(wk, rq.req),
                     IF GRADIENT_DIVISION
                     THEN div_(grad_inputs, rq.pg.size) ELSE grad_inputs,
                     "None")

ReduceScatter_Wait_forward(pg, rq, wk) ==
    IF rq.req = NoReq
    THEN Raise("AssertionError", rq, wk)
    ELSE Return([rq EXCEPT !.req = NoReq, !.tensor = NoTensor],
                WorkWait(wk, rq.req), Output(rq.tensor.numel),
                "ReduceScatter_Wait")

\* Variant: the backward pass repeats the forward collective.
ReduceScatter_Wait_backward_same(rq, wk, grad_output) ==
    LET rsi == rq.rsi
        work == Work("reduce_scatter", "ReduceScatter_Wait.backward",
                     <<>>, <<>>, rsi.input_sizes[rq.pg.rank])
    IN  Return(Pending(rq, wk, work), Append(wk, work), rq.dummy_tensor,
               "None")

\* dist.all_gather fills the list grad_inputs, one buffer of size in_size for
\* each in_size of rsi.input_sizes: the work records these sizes as the sizes
\* of its outputs.
ReduceScatter_Wait_backward(rq, wk, grad_output) ==
    LET rsi == rq.rsi
        work == Work("all_gather", "ReduceScatter_Wait.backward",
                     rsi.input_sizes, <<>>, Sum(rsi.input_sizes))
    IN  Return(Pending(rq, wk, work), Append(wk, work), rq.dummy_tensor,
               "None")

reduce_scatter_sync(pg, rsi, inputs, wk) ==
    Return(NoRequest,
           Append(wk, SyncWork("functional.reduce_scatter_tensor",
                               "reduce_scatter_sync", <<>>, <<>>,
                               Sum(inputs) \div pg.size)),
           Output(Sum(inputs) \div pg.size), "None")

reduce_scatter_pooled(c) ==
    LET group == c.group
        rsi == ReduceScatterInfo(c.inputs, c.codecs)
    IN  IF group.size <= 1
        THEN NoWait([id |-> "inputs", index |-> group.rank,
                     numel |-> c.inputs[group.rank]],
                    Return(NoRequest, <<>>, NoTensor, "None"))
        ELSE IF c.compiling
        THEN LET r == reduce_scatter_sync(group, rsi, c.inputs, <<>>)
             IN  NoWait(r.out, r)
        ELSE Async(ReduceScatter_Req_forward(group, Request(group), rsi,
                                             c.inputs, <<>>))

---------------------------------------------------------------------------
\* Reduce-scatter of one flattened tensor.

ReduceScatterBaseInfo(input_sizes, codecs) ==
    [type |-> "ReduceScatterBaseInfo", input_sizes |-> input_sizes,
     codecs |-> codecs]

\* A forward that issues the collective without looking at the shape.
ReduceScatterBase_Req_forward_unchecked(pg, rq, rsi, inputs, wk) ==
    LET my_size == pg.size
        work == Work("_reduce_scatter_base", "ReduceScatterBase_Req.forward",
                     <<>>, <<>>,
                     (inputs.shape[1] \div my_size) * inputs.shape[2])
    IN  Return([Pending(rq, wk, work) EXCEPT
                   !.wait_function = "ReduceScatterBase_Wait",
                   !.rsi = rsi],
               Append(wk, work), rq.dummy_tensor,
               "ReduceScatterBase_Req")

ReduceScatterBase_Req_forward(pg, rq, rsi, inputs, wk) ==
    LET my_size == pg.size
        work == Work("_reduce_scatter_base", "ReduceScatterBase_Req.forward",
                     <<>>, <<>>,
                     (inputs.shape[1] \div my_size) * inputs.shape[2])
    IN  IF inputs.shape[1] % my_size # 0
        THEN Raise("AssertionError", rq, wk)
        ELSE Return([Pending(rq, wk, work) EXCEPT
                        !.wait_function = "ReduceScatterBase_Wait",
                        !.rsi = rsi],
                    Append(wk, work), rq.dummy_tensor,
                    "ReduceScatterBase_Req")

ReduceScatterBase_Req_backward(rq, wk, recv) ==
    IF rq.req = NoReq
    THEN Raise("AttributeError", rq, wk)
    ELSE LET grad_inputs == Gradient(rq.tensor.numel, recv)
         IN  Return([rq EXCEPT !.req = NoReq, !.tensor = NoTensor,
                                !.dummy_tensor = "None"],
                     WorkWait(wk, rq.req),
                     IF GRADIENT_DIVISION
                     THEN div_(grad_inputs, rq.pg.size) ELSE grad_inputs,
                     "None")

ReduceScatterBase_Wait_forward(pg, rq, wk) ==
    IF rq.req = NoReq
    THEN Raise("AssertionError", rq, wk)
    ELSE Return([rq EXCEPT !.req = NoReq, !.tensor = NoTensor],
                WorkWait(wk, rq.req), Output(rq.tensor.numel),
                "ReduceScatterBase_Wait")

ReduceScatterBase_Wait_backward(rq, wk, grad_output) ==
    LET rsi == rq.rsi
        work == Work("_all_gather_base", "ReduceScatterBase_Wait.backward",
                     <<>>, <<>>, rsi.input_sizes[1] * rsi.input_sizes[2])
    IN  Return(Pending(rq, wk, work), Append(wk, work), rq.dummy_tensor,
               "None")

reduce_scatter_base_sync(pg, rsi, inputs, wk) ==
    LET my_size == pg.size
        numel == (inputs.shape[1] \div my_size) * inputs.shape[2]
    IN  IF inputs.shape[1] % my_size # 0
        THEN Raise("AssertionError", NoRequest, wk)
        ELSE Return(NoRequest,
                    Append(wk, SyncWork("functional.reduce_scatter_tensor",
                                        "reduce_scatter_base_sync",
                                        <<>>, <<>>, numel)),
                    Output(numel), "None")

reduce_scatter_base_pooled(c) ==
    LET group == c.group
        rsi == ReduceScatterBaseInfo(c.input.shape, c.codecs)
    IN  IF group.size <= 1
        THEN NoWait(c.input, Return(NoRequest, <<>>, NoTensor, "None"))
        ELSE IF c.compiling
        THEN LET r == reduce_scatter_base_sync(group, rsi, c.input, <<>>)
             IN  NoWait(r.out, r)
        ELSE Async(ReduceScatterBase_Req_forward(group, Request(group), rsi,
                                                 c.input, <<>>))

---------------------------------------------------------------------------
\* All-gather of one flattened tensor.

AllGatherBaseInfo(input_size, codecs) ==
    [type |-> "AllGatherBaseInfo", input_size |-> input_size,
     codecs |-> codecs]

AllGatherBase_Req_forward(pg, rq, agi, input, wk) ==
    LET my_size == pg.size
        work == Work("_all_gather_base", "AllGatherBase_Req.forward",
                     <<>>, <<>>, input.shape[1] * my_size * input.shape[2])
    IN  Return([Pending(rq, wk, work) EXCEPT
                    !.wait_function = "AllGatherBase_Wait",
                    !.agi = agi],
               Append(wk, work), rq.dummy_tensor, "AllGatherBase_Req")

AllGatherBase_Req_backward(rq, wk, recv) ==
    IF rq.req = NoReq
    THEN Raise("AssertionError", rq, wk)
    ELSE LET grad_input == Gradient(rq.tensor.numel, recv)
         IN  Return([rq EXCEPT !.req = NoReq, !.tensor = NoTensor,
                                !.dummy_tensor = "None"],
                     WorkWait(wk, rq.req),
                     IF GRADIENT_DIVISION
                     THEN div_(grad_input, rq.pg.size) ELSE grad_input,
                     "None")

\* Variant: the buffer is handed out without waiting for the collective.
AllGatherBase_Wait_forward_early(pg, rq, wk) ==
    IF rq.req = NoReq
    THEN Raise("AssertionError", rq, wk)
    ELSE Return([rq EXCEPT !.req = NoReq, !.tensor = NoTensor],
                wk, Output(rq.tensor.numel), "AllGatherBase_Wait")

AllGatherBase_Wait_forward(pg, rq, wk) ==
    IF rq.req = NoReq
    THEN Raise("AssertionError", rq, wk)
    ELSE Return([rq EXCEPT !.req = NoReq, !.tensor = NoTensor],
                WorkWait(wk, rq.req), Output(rq.tensor.numel),
                "AllGatherBase_Wait")

AllGatherBase_Wait_backward(rq, wk, grad_outputs) ==
    LET agi == rq.agi
        work == Work("_reduce_scatter_base", "AllGatherBase_Wait.backward",
                     <<>>, <<>>, agi.input_size[1] * agi.input_size[2])
    IN  Return(Pending(rq, wk, work), Append(wk, work), rq.dummy_tensor,
               "None")

all_gather_base_sync(pg, agi, input, wk) ==
    LET numel == input.shape[1] * pg.size * input.shape[2]
    IN  Return(NoRequest,
               Append(wk, SyncWork("functional.all_gather_tensor",
                                   "all_gather_base_sync", <<>>, <<>>, numel)),
               Output(numel), "None")

all_gather_base_pooled(c) ==
    LET group == c.group
        agi == AllGatherBaseInfo(c.input.shape, c.codecs)
    IN  IF group.size <= 1
        THEN NoWait(c.input, Return(NoRequest, <<>>, NoTensor, "None"))
        ELSE IF c.compiling
        THEN LET r == all_gather_base_sync(group, agi, c.input, <<>>)
             IN  NoWait(r.out, r)
        ELSE Async(AllGatherBase_Req_forward(group, Request(group), agi,
                                             c.input, <<>>))

---------------------------------------------------------------------------
\* Reduce-scatter with per-rank split sizes.

ReduceScatterVInfo(input_sizes, input_splits, equal_splits, total_input_size, codecs) ==
    [type |-> "ReduceScatterVInfo", input_sizes |-> input_sizes,
     input_splits |-> input_splits, equal_splits |-> equal_splits,
     total_input_size |-> total_input_size, codecs |-> codecs]

\* Variant: the handle is given the list reduce-scatter's wait function.
ReduceScatterV_Req_forward_other_wait(pg, rq, rsi, input, wk) ==
    LET my_rank == pg.rank
        work == Work(IF rsi.equal_splits THEN "_reduce_scatter_base"
                     ELSE "reduce_scatter",
                     "ReduceScatterV_Req.forward",
                     <<>>,
                     IF rsi.equal_splits THEN <<>> ELSE rsi.input_splits,
                     rsi.input_sizes[my_rank])
    IN  Return([Pending(rq, wk, work) EXCEPT
                    !.wait_function = "ReduceScatter_Wait",
                    !.rsi = rsi],
               Append(wk, work), rq.dummy_tensor, "ReduceScatterV_Req")

ReduceScatterV_Req_forward(pg, rq, rsi, input, wk) ==
    LET my_rank == pg.rank
        work == Work(IF rsi.equal_splits THEN "_reduce_scatter_base"
                     ELSE "reduce_scatter",
                     "ReduceScatterV_Req.forward",
                     <<>>,
                     IF rsi.equal_splits THEN <<>> ELSE rsi.input_splits,
                     rsi.input_sizes[my_rank])
    IN  Return([Pending(rq, wk, work) EXCEPT
                    !.wait_function = "ReduceScatterV_Wait",
                    !.rsi = rsi],
               Append(wk, work), rq.dummy_tensor, "ReduceScatterV_Req")

ReduceScatterV_Req_backward(rq, wk, recv) ==
    IF rq.req = NoReq
    THEN Raise("AssertionError", rq, wk)
    ELSE LET grad_input == Gradient(rq.tensor.numel, recv)
         IN  Return([rq EXCEPT !.req = NoReq, !.tensor = NoTensor,
                                !.dummy_tensor = "None"],
                     WorkWait(wk, rq.req),
                     IF GRADIENT_DIVISION
                     THEN div_(grad_input, rq.pg.size) ELSE grad_input,
                     "None")

ReduceScatterV_Wait_forward(pg, rq, wk) ==
    IF rq.req = NoReq
    THEN Raise("AssertionError", rq, wk)
    ELSE Return([rq EXCEPT !.req = NoReq, !.tensor = NoTensor],
                WorkWait(wk, rq.req), Output(rq.tensor.numel),
                "ReduceScatterV_Wait")

\* Variant: the backward pass always takes the per-split branch.
ReduceScatterV_Wait_backward_per_split(rq, wk, grad_output) ==
    LET rsi == rq.rsi
        work == Work("all_gather", "ReduceScatterV_Wait.backward",
                     rsi.input_splits, <<>>, rsi.total_input_size)
    IN  Return(Pending(rq, wk, work), Append(wk, work), rq.dummy_tensor,
               "None")

ReduceScatterV_Wait_backward(rq, wk, grad_output) ==
    LET rsi == rq.rsi
        work == Work(IF rsi.equal_splits THEN "_all_gather_base"
                     ELSE "all_gather",
                     "ReduceScatterV_Wait.backward",
                     IF rsi.equal_splits THEN <<>> ELSE rsi.input_splits,
                     <<>>,
                     rsi.total_input_size)
    IN  Return(Pending(rq, wk, work), Append(wk, work), rq.dummy_tensor,
               "None")

\* Variant: a twin that calls the functional reduce-scatter whatever the
\* splits.
reduce_scatter_v_sync_native(pg, rsi, input, wk) ==
    Return(NoRequest,
           Append(wk, SyncWork("functional.reduce_scatter_tensor",
                               "reduce_scatter_v_sync", <<>>, <<>>,
                               rsi.input_splits[pg.rank])),
           Output(rsi.input_splits[pg.rank]), "None")

reduce_scatter_v_sync(pg, rsi, input, wk) ==
    LET world_size == pg.size
        rank == pg.rank
        output_splits == [r \in 0..(world_size - 1) |-> rsi.input_splits[rank]]
    IN  Return(NoRequest,
               Append(wk,
                      IF rsi.equal_splits
                      THEN SyncWork("functional.reduce_scatter_tensor",
                                    "reduce_scatter_v_sync", <<>>, <<>>,
                                    rsi.total_input_size \div world_size)
                      ELSE SyncWork("functional.all_to_all_single",
                                    "reduce_scatter_v_sync", output_splits,
                                    rsi.input_splits, Sum(output_splits))),
               Output(IF rsi.equal_splits
                      THEN rsi.total_input_size \div world_size
                      ELSE rsi.input_splits[rank]),
               "None")

reduce_scatter_v_pooled(c) ==
    LET group == c.group
        input_splits == c.input_splits
        equal_splits == \A r \in DOMAIN input_splits :
                            input_splits[r] = input_splits[0]
        rsvi == ReduceScatterVInfo(input_splits, input_splits, equal_splits,
                                   c.input.numel, c.codecs)
    IN  IF group.size <= 1
        THEN NoWait(c.input, Return(NoRequest, <<>>, NoTensor, "None"))
        ELSE IF c.compiling
        THEN LET r == reduce_scatter_v_sync(group, rsvi, c.input, <<>>)
             IN  NoWait(r.out, r)
        ELSE Async(ReduceScatterV_Req_forward(group, Request(group), rsvi,
                                              c.input, <<>>))

reduce_scatter_v_per_feature_pooled(c) ==
    LET group == c.group
        world_size == group.size
        input_splits ==
            [rank \in 0..(world_size - 1) |->
                IF c.batch_size_per_rank_per_feature # <<>>
                THEN ZipDot(c.batch_size_per_rank_per_feature[rank],
                            c.embedding_dims)
                ELSE 0]
        rsvi == ReduceScatterVInfo(input_splits, input_splits, FALSE,
                                   c.input.numel, c.codecs)
    IN  IF world_size <= 1
        THEN NoWait(c.input, Return(NoRequest, <<>>, NoTensor, "None"))
        ELSE IF c.compiling
        THEN LET r == reduce_scatter_v_sync(group, rsvi, c.input, <<>>)
             IN  NoWait(r.out, r)
        ELSE Async(ReduceScatterV_Req_forward(group, Request(group), rsvi,
                                              c.input, <<>>))

---------------------------------------------------------------------------
\* Request._wait_impl and the autograd engine's dispatch.

WaitFunctionApply(rq, wk) ==
    CASE rq.wait_function = "All2All_Pooled_Wait" ->
            All2All_Pooled_Wait_forward(rq.pg, rq, wk)
      [] rq.wait_function = "Variable_Batch_All2All_Pooled_Wait" ->
            Variable_Batch_All2All_Pooled_Wait_forward(rq.pg, rq, wk)
      [] rq.wait_function = "All2All_Seq_Req_Wait" ->
            All2All_Seq_Req_Wait_forward(rq.pg, rq, wk)
      [] rq.wait_function = "All2Allv_Wait" ->
            All2Allv_Wait_forward(rq.pg, rq, wk)
      [] rq.wait_function = "ReduceScatter_Wait" ->
            ReduceScatter_Wait_forward(rq.pg, rq, wk)
      [] rq.wait_function = "ReduceScatterBase_Wait" ->
            ReduceScatterBase_Wait_forward(rq.pg, rq, wk)
      [] rq.wait_function = "AllGatherBase_Wait" ->
            AllGatherBase_Wait_forward(rq.pg, rq, wk)
      [] rq.wait_function = "ReduceScatterV_Wait" ->
            ReduceScatterV_Wait_forward(rq.pg, rq, wk)
      [] OTHER -> Raise("AttributeError", rq, wk)

\* A faulty wait: it waits on the pending operation and hands back the
\* buffer, but neither applies the wait function nor clears the handle.
_wait_impl_keeps_handle(rq, wk) ==
    IF rq.req = NoReq
    THEN Raise("AssertionError", rq, wk)
    ELSE Return(rq, WorkWait(wk, rq.req), Output(rq.tensor.numel),
                rq.wait_function)

_wait_impl(rq, wk) ==
    LET r == WaitFunctionApply(rq, wk)
    IN  IF r.err # ""
        THEN r
        ELSE [r EXCEPT !.myreq = [r.myreq EXCEPT !.req = NoReq,
                                                 !.tensor = NoTensor]]

\* The backward of the Wait node the forward pass recorded.
WaitNodeBackward(node, rq, wk, grad_output) ==
    CASE node = "All2All_Pooled_Wait" ->
            All2All_Pooled_Wait_backward(rq, wk, grad_output)
      [] node = "Variable_Batch_All2All_Pooled_Wait" ->
            Variable_Batch_All2All_Pooled_Wait_backward(rq, wk, grad_output)
      [] node = "All2All_Seq_Req_Wait" ->
            All2All_Seq_Req_Wait_backward(rq, wk, grad_output)
      [] node = "All2Allv_Wait" ->
            All2Allv_Wait_backward(rq, wk, grad_output)
      [] node = "ReduceScatter_Wait" ->
            ReduceScatter_Wait_backward(rq, wk, grad_output)
      [] node = "ReduceScatterBase_Wait" ->
            ReduceScatterBase_Wait_backward(rq, wk, grad_output)
      [] node = "AllGatherBase_Wait" ->
            AllGatherBase_Wait_backward(rq, wk, grad_output)
      [] node = "ReduceScatterV_Wait" ->
            ReduceScatterV_Wait_backward(rq, wk, grad_output)

\* The backward of the Req node the forward pass recorded.
ReqNodeBackward(node, rq, wk, recv) ==
    CASE node = "All2All_Pooled_Req" ->
            All2All_Pooled_Req_backward(rq, wk, recv)
      [] node = "Variable_Batch_All2All_Pooled_Req" ->
            Variable_Batch_All2All_Pooled_Req_backward(rq, wk, recv)
      [] node = "All2All_Seq_Req" ->
            All2All_Seq_Req_backward(rq, wk, recv)
      [] node = "All2Allv_Req" ->
            All2Allv_Req_backward(rq, wk, recv)
      [] node = "ReduceScatter_Req" ->
            ReduceScatter_Req_backward(rq, wk, recv)
      [] node = "ReduceScatterBase_Req" ->
            ReduceScatterBase_Req_backward(rq, wk, recv)
      [] node = "AllGatherBase_Req" ->
            AllGatherBase_Req_backward(rq, wk, recv)
      [] node = "ReduceScatterV_Req" ->
            ReduceScatterV_Req_backward(rq, wk, recv)

---------------------------------------------------------------------------
\* Inputs of the entry points.

ProcessGroups ==
    UNION {{[size |-> W, rank |-> k] : k \in 0..(W - 1)} : W \in WorldSizes}

PerRank(g, S) == [0..(g.size - 1) -> S]

Matrix(rows, cols) ==
    [id |-> "input", shape |-> <<rows, cols>>, numel |-> rows * cols]

Flat(numel) == [id |-> "input", numel |-> numel]

PlainCodecs ==
    {NoCodecs,
     [kind |-> "QuantizedCommCodecs", forward |-> "identity",
      backward |-> "identity"]}

---------------------------------------------------------------------------
\* The steps of the rank.

Init ==
    /\ GRADIENT_DIVISION = TRUE
    /\ lastSet = TRUE
    /\ pc = "idle"
    /\ call = NoCall
    /\ ret = NoRet
    /\ myreq = NoRequest
    /\ works = <<>>
    /\ graph = <<>>
    /\ result = NoTensor
    /\ grad = NoGrad
    /\ err = ""
    /\ prev = NoPrev

\* An entry point is called with arguments c and hands back r.
Enter(c, r) ==
    /\ call' = c
    /\ ret' = r.ret
    /\ myreq' = r.myreq
    /\ works' = r.works
    /\ graph' = IF r.node # "None" THEN <<r.node>> ELSE <<>>
    /\ err' = r.err
    /\ pc' = IF r.err # "" THEN "error" ELSE "returned"
    /\ UNCHANGED <<GRADIENT_DIVISION, lastSet, result, grad, prev>>

Call_alltoall_pooled ==
    /\ pc = "idle"
    /\ \E g \in ProcessGroups, compiling \in BOOLEAN, codecs \in CodecChoices,
          mismatch \in 0..1 :
         \E batch \in PerRank(g, BatchSizes), dims \in PerRank(g, DimSums) :
           LET c == [entry |-> "alltoall_pooled", group |-> g,
                     compiling |-> compiling, codecs |-> codecs,
                     batch_size_per_rank |-> batch, dim_sum_per_rank |-> dims,
                     input |-> Matrix(Sum(batch) + mismatch, dims[g.rank])]
           IN  Enter(c, alltoall_pooled(c))

Call_variable_batch_alltoall_pooled ==
    /\ pc = "idle"
    /\ \E g \in ProcessGroups, compiling \in BOOLEAN, codecs \in CodecChoices :
         \E bs \in PerRank(g, FeatureBatches), emb \in PerRank(g, DimSums),
            pre \in PerRank(g, FeatureBatches) :
           LET c == [entry |-> "variable_batch_alltoall_pooled", group |-> g,
                     compiling |-> compiling, codecs |-> codecs,
                     batch_size_per_rank_per_feature |->
                         [r \in 0..(g.size - 1) |-> [f \in 0..0 |-> bs[r]]],
                     batch_size_per_feature_pre_a2a |-> pre,
                     emb_dim_per_rank_per_feature |->
                         [r \in 0..(g.size - 1) |-> [f \in 0..0 |-> emb[r]]],
                     input |-> Flat(Sum(bs) * emb[g.rank])]
           IN  Enter(c, variable_batch_alltoall_pooled(c))

Call_alltoall_sequence ==
    /\ pc = "idle"
    /\ \E g \in ProcessGroups, compiling \in BOOLEAN, codecs \in CodecChoices,
          D \in DimSums, local_T \in 0..1, variable_batch_size \in BOOLEAN :
         \E input_splits \in PerRank(g, SequenceSplits),
            output_splits \in PerRank(g, SequenceSplits) :
           LET c == [entry |-> "alltoall_sequence", group |-> g,
                     compiling |-> compiling, codecs |-> codecs,
                     lengths_after_sparse_data_all2all |-> Lengths(local_T),
                     variable_batch_size |-> variable_batch_size,
                     input_splits |-> input_splits,
                     output_splits |-> output_splits,
                     input |-> Matrix(Sum(output_splits), D)]
           IN  Enter(c, alltoall_sequence(c))

Call_alltoallv ==
    /\ pc = "idle"
    /\ \E g \in ProcessGroups, compiling \in BOOLEAN, codecs \in CodecChoices,
          B_global \in 1..(MaxBatch + 1), T \in 1..2,
          mode \in {"out_split", "per_rank_split_lengths", "neither"} :
         \E D_local_list \in [0..(T - 1) -> DimSums], l \in PerRank(g, DimSums) :
           LET c == [entry |-> "alltoallv", group |-> g,
                     compiling |-> compiling, codecs |-> codecs,
                     B_global |-> B_global, D_local_list |-> D_local_list,
                     out_split |-> IF mode = "out_split" THEN List(l)
                                   ELSE NoList,
                     per_rank_split_lengths |->
                         IF mode = "per_rank_split_lengths" THEN List(l)
                         ELSE NoList]
           IN  Enter(c, alltoallv(c))

Call_reduce_scatter_pooled ==
    /\ pc = "idle"
    /\ \E g \in ProcessGroups, compiling \in BOOLEAN, codecs \in PlainCodecs,
          n \in BatchSizes :
           LET c == [entry |-> "reduce_scatter_pooled", group |-> g,
                     compiling |-> compiling, codecs |-> codecs,
                     inputs |-> [r \in 0..(g.size - 1) |-> n]]
           IN  Enter(c, reduce_scatter_pooled(c))

Call_reduce_scatter_base_pooled ==
    /\ pc = "idle"
    /\ \E g \in ProcessGroups, compiling \in BOOLEAN, codecs \in PlainCodecs,
          rows \in 1..(2 * MaxBatch), cols \in DimSums :
           LET c == [entry |-> "reduce_scatter_base_pooled", group |-> g,
                     compiling |-> compiling, codecs |-> codecs,
                     input |-> Matrix(rows, cols)]
           IN  Enter(c, reduce_scatter_base_pooled(c))

Call_all_gather_base_pooled ==
    /\ pc = "idle"
    /\ \E g \in ProcessGroups, compiling \in BOOLEAN, codecs \in PlainCodecs,
          rows \in BatchSizes, cols \in DimSums :
           LET c == [entry |-> "all_gather_base_pooled", group |-> g,
                     compiling |-> compiling, codecs |-> codecs,
                     input |-> Matrix(rows, cols)]
           IN  Enter(c, all_gather_base_pooled(c))

Call_reduce_scatter_v_pooled ==
    /\ pc = "idle"
    /\ \E g \in ProcessGroups, compiling \in BOOLEAN, codecs \in PlainCodecs :
         \E input_splits \in PerRank(g, BatchSizes) :
           LET c == [entry |-> "reduce_scatter_v_pooled", group |-> g,
                     compiling |-> compiling, codecs |-> codecs,
                     input_splits |-> input_splits,
                     input |-> Flat(Sum(input_splits))]
           IN  Enter(c, reduce_scatter_v_pooled(c))

Call_reduce_scatter_v_per_feature_pooled ==
    /\ pc = "idle"
    /\ \E g \in ProcessGroups, compiling \in BOOLEAN, codecs \in PlainCodecs,
          empty \in BOOLEAN :
         \E b \in PerRank(g, BatchSizes), embedding_dims \in [0..0 -> DimSums] :
           LET bs == IF empty THEN <<>>
                     ELSE [r \in 0..(g.size - 1) |-> [f \in 0..0 |-> b[r]]]
               c == [entry |-> "reduce_scatter_v_per_feature_pooled",
                     group |-> g, compiling |-> compiling, codecs |-> codecs,
                     batch_size_per_rank_per_feature |-> bs,
                     embedding_dims |-> embedding_dims,
                     input |-> Flat(IF empty THEN 0
                                    ELSE Sum(b) * embedding_dims[0])]
           IN  Enter(c, reduce_scatter_v_per_feature_pooled(c))

\* Awaitable.wait() on the Request the entry point returned.  The handle is
\* an ordinary object: wait() can be called on it again at any later point,
\* also between the two backward primitives.
Wait ==
    /\ pc \in {"returned", "waited", "bwd_issued", "done"}
    /\ ret.kind = "Request"
    /\ LET r == _wait_impl(myreq, works)
       IN  /\ myreq' = r.myreq
           /\ works' = r.works
           /\ err' = r.err
           /\ result' = r.out
           /\ graph' = IF r.err = "" THEN Append(graph, r.node) ELSE graph
           /\ pc' = IF r.err # "" THEN "error"
                    ELSE IF pc = "bwd_issued" THEN "bwd_issued" ELSE "waited"
    /\ UNCHANGED <<GRADIENT_DIVISION, lastSet, call, ret, grad, prev>>

\* The autograd engine runs the Wait node's backward on the gradient of the
\* result ...
Wait_backward ==
    /\ pc = "waited"
    /\ LET r == WaitNodeBackward(graph[2], myreq, works, result)
       IN  /\ myreq' = r.myreq
           /\ works' = r.works
           /\ err' = r.err
           /\ pc' = IF r.err = "" THEN "bwd_issued" ELSE "error"
    /\ UNCHANGED <<GRADIENT_DIVISION, lastSet, call, ret, graph, result, grad,
                   prev>>

\* ... and then the Req node's backward, which takes what the dual
\* collective delivered.
Req_backward ==
    /\ pc = "bwd_issued"
    /\ \E recv \in GradVals :
         LET r == ReqNodeBackward(graph[1], myreq, works, recv)
         IN  /\ myreq' = r.myreq
             /\ works' = r.works
             /\ err' = r.err
             /\ grad' = IF r.err = "" THEN r.out ELSE NoGrad
             /\ pc' = IF r.err = "" THEN "done" ELSE "error"
    /\ UNCHANGED <<GRADIENT_DIVISION, lastSet, call, ret, graph, result,
                   prev>>

Set_gradient_division ==
    /\ pc \in {"idle", "returned", "waited", "bwd_issued"}
    /\ \E val \in BOOLEAN :
         /\ GRADIENT_DIVISION' = set_gradient_division(val)
         /\ lastSet' = val
    /\ UNCHANGED <<pc, call, ret, myreq, works, graph, result, grad, err,
                   prev>>

\* The caller drops the awaitable; the next invocation starts afresh.
Discard ==
    /\ pc \in {"returned", "waited", "done", "error"}
    /\ pc' = "idle"
    /\ call' = NoCall
    /\ ret' = NoRet
    /\ myreq' = NoRequest
    /\ works' = <<>>
    /\ graph' = <<>>
    /\ result' = NoTensor
    /\ grad' = NoGrad
    /\ err' = ""
    /\ UNCHANGED <<GRADIENT_DIVISION, lastSet, prev>>

Next ==
    \/ Call_alltoall_pooled
    \/ Call_variable_batch_alltoall_pooled
    \/ Call_alltoall_sequence
    \/ Call_alltoallv
    \/ Call_reduce_scatter_pooled
    \/ Call_reduce_scatter_base_pooled
    \/ Call_all_gather_base_pooled
    \/ Call_reduce_scatter_v_pooled
    \/ Call_reduce_scatter_v_per_feature_pooled
    \/ Wait
    \/ Wait_backward
    \/ Req_backward
    \/ Set_gradient_division
    \/ Discard

Spec == Init /\ [][Next]_vars

---------------------------------------------------------------------------
\* The same invocation made twice, to compare the two gradients: the first
\* with the policy enabled at its backward, the second under either setting.

EntryPoint(c) ==
    CASE c.entry = "alltoall_pooled" -> alltoall_pooled(c)
      [] c.entry = "variable_batch_alltoall_pooled" ->
            variable_batch_alltoall_pooled(c)
      [] c.entry = "alltoall_sequence" -> alltoall_sequence(c)
      [] c.entry = "alltoallv" -> alltoallv(c)
      [] c.entry = "reduce_scatter_pooled" -> reduce_scatter_pooled(c)
      [] c.entry = "reduce_scatter_base_pooled" ->
            reduce_scatter_base_pooled(c)
      [] c.entry = "all_gather_base_pooled" -> all_gather_base_pooled(c)
      [] c.entry = "reduce_scatter_v_pooled" -> reduce_scatter_v_pooled(c)
      [] c.entry = "reduce_scatter_v_per_feature_pooled" ->
            reduce_scatter_v_per_feature_pooled(c)

\* The first invocation is over; its arguments and gradient are kept.
Rerun ==
    /\ pc = "done"
    /\ prev = NoPrev
    /\ GRADIENT_DIVISION
    /\ prev' = [kind |-> "Run", call |-> call, policy |-> GRADIENT_DIVISION,
                grad |-> grad]
    /\ pc' = "idle"
    /\ call' = NoCall
    /\ ret' = NoRet
    /\ myreq' = NoRequest
    /\ works' = <<>>
    /\ graph' = <<>>
    /\ result' = NoTensor
    /\ grad' = NoGrad
    /\ err' = ""
    /\ UNCHANGED <<GRADIENT_DIVISION, lastSet>>

\* The entry point is called again with the arguments of the first call.
Call_again ==
    /\ pc = "idle"
    /\ prev # NoPrev
    /\ Enter(prev.call, EntryPoint(prev.call))

FirstCall ==
    /\ prev = NoPrev
    /\ \/ Call_alltoall_pooled
       \/ Call_variable_batch_alltoall_pooled
       \/ Call_alltoall_sequence
       \/ Call_alltoallv
       \/ Call_reduce_scatter_pooled
       \/ Call_reduce_scatter_base_pooled
       \/ Call_all_gather_base_pooled
       \/ Call_reduce_scatter_v_pooled
       \/ Call_reduce_scatter_v_per_feature_pooled

NextPair ==
    \/ FirstCall
    \/ Call_again
    \/ Wait
    \/ Wait_backward
    \/ Req_backward
    \/ Set_gradient_division
    \/ Rerun

SpecPair == Init /\ [][NextPair]_vars

---------------------------------------------------------------------------
\* Properties.

\* C1: for every collective shape, once wait() on a Request handle has
\* returned, the handle's req and tensor are both None.
C1_WaitClearsHandle ==
    [][(Wait /\ err' = "") =>
          (myreq'.req = NoReq /\ myreq'.tensor = NoTensor)]_vars

C1_Witness ==
    /\ pc = "waited"
    /\ ret.kind = "Request"
    /\ result # NoTensor
    /\ works[1].waits = 1
    /\ myreq.req = NoReq

\* C2: a wait() made after the handle was already consumed by an earlier
\* wait() ends in the error of the null pending-operation check and returns
\* no tensor.
C2_SecondWaitFails ==
    [][(Len(graph) >= 2 /\ Wait) =>
          (err' = "AssertionError" /\ result' = NoTensor)]_vars

\* C3: every network operation a primitive issued was waited on at most
\* once, and exactly once by the time the handle no longer refers to it.
C3_WaitedExactlyOnce ==
    \A i \in 1..Len(works) :
        works[i].async_op =>
            /\ works[i].waits <= 1
            /\ (myreq.req # i => works[i].waits = 1)

\* The steps that issue the forward collective, and those that issue the
\* dual collective of the reverse pass.
ForwardIssuers ==
    {"All2All_Pooled_Req.forward", "all2all_pooled_sync",
     "Variable_Batch_All2All_Pooled_Req.forward",
     "variable_batch_all2all_pooled_sync",
     "All2All_Seq_Req.forward", "all2all_sequence_sync",
     "All2Allv_Req.forward", "all2allv_sync",
     "ReduceScatter_Req.forward", "reduce_scatter_sync",
     "ReduceScatterBase_Req.forward", "reduce_scatter_base_sync",
     "AllGatherBase_Req.forward", "all_gather_base_sync",
     "ReduceScatterV_Req.forward", "reduce_scatter_v_sync"}

WaitBackwardIssuers ==
    {"All2All_Pooled_Wait.backward",
     "Variable_Batch_All2All_Pooled_Wait.backward",
     "All2All_Seq_Req_Wait.backward", "All2Allv_Wait.backward",
     "ReduceScatter_Wait.backward", "ReduceScatterBase_Wait.backward",
     "AllGatherBase_Wait.backward", "ReduceScatterV_Wait.backward"}

\* C4: an invocation on a group of more than one rank has issued exactly one
\* forward collective once it returned; its reverse pass adds exactly one
\* dual collective, issued by the Wait primitive's backward, and the Req
\* primitive's backward adds none; nothing is issued a second time.
C4_OneCollectiveEach ==
    (call.entry # "None" /\ call.group.size > 1) =>
        /\ pc \in {"returned", "waited"} =>
              /\ Len(works) = 1
              /\ works[1].by \in ForwardIssuers
        /\ pc \in {"bwd_issued", "done"} =>
              /\ Len(works) = 2
              /\ works[1].by \in ForwardIssuers
              /\ works[2].by \in WaitBackwardIssuers
        /\ Len(works) <= 2

C4_Witness ==
    /\ pc = "done"
    /\ call.group.size > 1
    /\ Len(works) = 2
    /\ works[2].waits = 1

\* What "the exact input" of an invocation is.
ExactInput(c) ==
    CASE c.entry = "reduce_scatter_pooled" ->
            [id |-> "inputs", index |-> c.group.rank,
             numel |-> c.inputs[c.group.rank]]
      [] c.entry = "alltoallv" ->
            [id |-> "inputs", D_local_list |-> c.D_local_list]
      [] OTHER -> c.input

\* C5: on a process group of size 1 every entry point returns a ready
\* awaitable holding the exact input; it makes no Request handle and issues
\* no network operation.
C5_SingleRankBypass ==
    (call.entry # "None" /\ call.group.size = 1) =>
        /\ pc # "error"
        /\ ret = [kind |-> "NoWait", obj |-> ExactInput(call)]
        /\ ~myreq.made
        /\ works = <<>>

\* C6: in async mode the entry point returns with a pending operation in the
\* handle that nobody has waited on, and a network operation is waited on
\* only in wait() and in the Req primitive's backward.
C6_ReturnsWithoutWaiting ==
    [][/\ (pc' = "returned" /\ ret'.kind = "Request") =>
              /\ myreq'.req # NoReq
              /\ works'[myreq'.req].waits = 0
       /\ (\E i \in 1..Len(works) :
              i <= Len(works') /\ works'[i].waits > works[i].waits) =>
              (Wait \/ Req_backward)
       /\ \A i \in (Len(works) + 1)..Len(works') :
              works'[i].async_op => works'[i].waits = 0]_vars

C6_Witness ==
    /\ pc = "returned"
    /\ ret.kind = "Request"
    /\ call.group.size > 1
    /\ ~call.compiling
    /\ myreq.req = 1
    /\ works[1].waits = 0

\* C7: the Req primitive's backward of every shape divides the gradient it
\* received by the world size if and only if the policy is enabled when it
\* runs.
C7_DividesIffPolicy ==
    [][(Req_backward /\ err' = "") =>
          grad'.den = IF GRADIENT_DIVISION THEN call.group.size ELSE 1]_vars

\* The second of two invocations with the same arguments has returned the
\* gradient of the same upstream gradient, the first with the policy enabled
\* and this one with it disabled.
SameRunPolicyToggled ==
    /\ pc = "done"
    /\ prev # NoPrev
    /\ prev.call = call
    /\ prev.grad.num = grad.num
    /\ prev.policy
    /\ ~GRADIENT_DIVISION

C9_PolicyOnlySet ==
    /\ GRADIENT_DIVISION = TRUE
    /\ [](get_gradient_division = lastSet)
    /\ [][GRADIENT_DIVISION' # GRADIENT_DIVISION => Set_gradient_division]_vars

C9_Witness ==
    /\ pc = "done"
    /\ lastSet = FALSE
    /\ get_gradient_division = FALSE
    /\ grad.den = 1

\* C10: pooled all-to-all without codec on rank me: the forward collective
\* has output_splits[r] = batch_size_per_rank[me] * dim_sum_per_rank[r] and
\* input_splits[r] = D_local_sum * batch_size_per_rank[r]; the backward
\* collective has the two swapped.
C10_PooledSplitsSwap ==
    (call.entry = "alltoall_pooled" /\ call.codecs = NoCodecs) =>
        /\ Len(works) >= 1 =>
              \A r \in 0..(call.group.size - 1) :
                /\ works[1].output_split_sizes[r] =
                      call.batch_size_per_rank[call.group.rank]
                          * call.dim_sum_per_rank[r]
                /\ works[1].input_split_sizes[r] =
                      call.input.shape[2] * call.batch_size_per_rank[r]
        /\ Len(works) >= 2 =>
              /\ works[2].input_split_sizes = works[1].output_split_sizes
              /\ works[2].output_split_sizes = works[1].input_split_sizes

C10_Witness ==
    /\ pc = "done"
    /\ call.entry = "alltoall_pooled"
    /\ call.codecs = NoCodecs
    /\ Len(works) = 2
    /\ works[2].input_split_sizes # works[2].output_split_sizes
    /\ works[2].input_split_sizes # works[1].input_split_sizes

---------------------------------------------------------------------------
\* Reduce-scatter-v on values: what each rank's output holds, given the
\* inputs of all ranks.  A tensor is a function from 0..(numel - 1).

Numel(t) == Cardinality(DOMAIN t)

Slice(t, start, len) == [i \in 0..(len - 1) |-> t[start + i]]

Failed == [ok |-> FALSE, data |-> <<>>]

Value(t) == [ok |-> TRUE, data |-> t]

\* torch.split(t, splits)
torch_split(t, splits) ==
    [r \in DOMAIN splits |-> Slice(t, SumTo(splits, r - 1), splits[r])]

\* torch.cat(chunks)
torch_cat(chunks) ==
    LET lens == [j \in DOMAIN chunks |-> Numel(chunks[j])]
    IN  [i \in 0..(Sum(lens) - 1) |->
            LET j == CHOOSE j \in DOMAIN chunks :
                        SumTo(lens, j - 1) <= i /\ i < SumTo(lens, j)
            IN  chunks[j][i - SumTo(lens, j - 1)]]

\* torch.sum(torch.stack(chunks), dim=0); the sum a reduce collective forms.
torch_sum_stack(chunks) ==
    IF \E j \in DOMAIN chunks : Numel(chunks[j]) # Numel(chunks[0])
    THEN Failed
    ELSE Value([i \in DOMAIN chunks[0] |->
                   Sum([j \in DOMAIN chunks |-> chunks[j][i]])])

\* dist._functional_collectives.reduce_scatter_tensor(input, "sum", 0, pg)
functional_reduce_scatter_tensor(inputs, world_size, rank) ==
    LET n == Numel(inputs[rank])
        chunk == n \div world_size
    IN  IF n % world_size # 0 THEN Failed
        ELSE torch_sum_stack([j \in 0..(world_size - 1) |->
                                 Slice(inputs[j], rank * chunk, chunk)])

\* dist._reduce_scatter_base(output, input, group=pg)
dist_reduce_scatter_base(output_numel, inputs, world_size, rank) ==
    IF Numel(inputs[rank]) # world_size * output_numel THEN Failed
    ELSE torch_sum_stack([j \in 0..(world_size - 1) |->
                             Slice(inputs[j], rank * output_numel,
                                   output_numel)])

\* dist.reduce_scatter(output, input_list, group=pg)
dist_reduce_scatter(output_numel, input_lists, world_size, rank) ==
    IF \E j \in 0..(world_size - 1) :
          Numel(input_lists[j][rank]) # output_numel
    THEN Failed
    ELSE torch_sum_stack([j \in 0..(world_size - 1) |->
                             input_lists[j][rank]])

\* dist._functional_collectives.all_to_all_single(input, output_splits,
\* input_splits, pg): rank j sends its r-th input split to rank r.
functional_all_to_all_single(inputs, output_splits, input_splits, world_size, rank) ==
    LET received == [j \in 0..(world_size - 1) |->
                        torch_split(inputs[j], input_splits)[rank]]
    IN  IF \E j \in 0..(world_size - 1) :
              Numel(received[j]) # output_splits[j]
        THEN Failed
        ELSE Value(torch_cat(received))

\* Variant: the emulation keeps the first received chunk instead of summing.
reduce_scatter_v_sync_values_unsummed(world_size, rank, rsi, inputs) ==
    IF rsi.equal_splits
    THEN functional_reduce_scatter_tensor(inputs, world_size, rank)
    ELSE LET output_splits == [r \in 0..(world_size - 1) |->
                                  rsi.input_splits[rank]]
             a2a_output == functional_all_to_all_single(
                               inputs, output_splits, rsi.input_splits,
                               world_size, rank)
         IN  IF a2a_output.ok
             THEN Value(torch_split(a2a_output.data, output_splits)[0])
             ELSE Failed

\* Variant: the emulation asks for the descriptor's splits as its output
\* splits instead of copies of the caller's own split.
reduce_scatter_v_sync_values_same_splits(world_size, rank, rsi, inputs) ==
    IF rsi.equal_splits
    THEN functional_reduce_scatter_tensor(inputs, world_size, rank)
    ELSE LET input_splits == rsi.input_splits
             output_splits == rsi.input_splits
             a2a_output == functional_all_to_all_single(
                               inputs, output_splits, input_splits,
                               world_size, rank)
         IN  IF a2a_output.ok
             THEN torch_sum_stack(torch_split(a2a_output.data, output_splits))
             ELSE Failed

reduce_scatter_v_sync_values(world_size, rank, rsi, inputs) ==
    IF rsi.equal_splits
    THEN functional_reduce_scatter_tensor(inputs, world_size, rank)
    ELSE LET input_splits == rsi.input_splits
             output_splits == [r \in 0..(world_size - 1) |->
                                  rsi.input_splits[rank]]
             a2a_output == functional_all_to_all_single(
                               inputs, output_splits, input_splits,
                               world_size, rank)
         IN  IF a2a_output.ok
             THEN torch_sum_stack(torch_split(a2a_output.data, output_splits))
             ELSE Failed

ReduceScatterV_Req_forward_values(world_size, my_rank, rsi, inputs) ==
    IF rsi.equal_splits
    THEN dist_reduce_scatter_base(rsi.input_sizes[my_rank], inputs,
                                  world_size, my_rank)
    ELSE dist_reduce_scatter(rsi.input_sizes[my_rank],
                             [j \in 0..(world_size - 1) |->
                                 torch_split(inputs[j], rsi.input_splits)],
                             world_size, my_rank)

\* The split lists and element values the comparison runs over.
SplitLists ==
    {[r \in 0..1 |-> 1], [r \in 0..1 |-> 2], [r \in 0..2 |-> 1],
     [r \in 0..1 |-> r + 1], [r \in 0..1 |-> 2 - r]}

Elements == {0, 1}

\* The arguments _get_split_lengths_by_len is applied to.
MaxN == 9
SplitWorldSizes == 1..4

\* All ranks run the reduce-scatter-v on their inputs, once with a descriptor
\* whose equal_splits is true and once with one whose equal_splits is false.
Compare(by, input_splits, inputs) ==
    LET world_size == Numel(input_splits)
        rsi(equal_splits) ==
            ReduceScatterVInfo(input_splits, input_splits, equal_splits,
                               Sum(input_splits), NoCodecs)
        outputs(equal_splits) ==
            [rank \in 0..(world_size - 1) |->
                IF by = "reduce_scatter_v_sync"
                THEN reduce_scatter_v_sync_values(world_size, rank,
                                                  rsi(equal_splits), inputs)
                ELSE ReduceScatterV_Req_forward_values(world_size, rank,
                                                       rsi(equal_splits),
                                                       inputs)]
    IN  /\ call' = [entry |-> by, input_splits |-> input_splits,
                    inputs |-> inputs]
        /\ result' = [kind |-> "Outputs", equal_splits |-> outputs(TRUE),
                      unequal_splits |-> outputs(FALSE)]
        /\ pc' = "compared"
        /\ UNCHANGED <<GRADIENT_DIVISION, lastSet, ret, myreq, works, graph,
                       grad, err, prev>>

Compare_reduce_scatter_v_sync ==
    /\ pc = "idle"
    /\ \E input_splits \in SplitLists :
         \E inputs \in [0..(Numel(input_splits) - 1) ->
                           [0..(Sum(input_splits) - 1) -> Elements]] :
           Compare("reduce_scatter_v_sync", input_splits, inputs)

Compare_ReduceScatterV_Req_forward ==
    /\ pc = "idle"
    /\ \E input_splits \in SplitLists :
         \E inputs \in [0..(Numel(input_splits) - 1) ->
                           [0..(Sum(input_splits) - 1) -> Elements]] :
           Compare("ReduceScatterV_Req.forward", input_splits, inputs)

\* _get_split_lengths_by_len applied to a world size, a rank and a length.
Apply_get_split_lengths_by_len ==
    /\ pc = "idle"
    /\ \E world_size \in SplitWorldSizes, n \in 0..MaxN :
         \E my_rank \in 0..(world_size - 1) :
           LET r == _get_split_lengths_by_len(world_size, my_rank, n)
           IN  /\ call' = [entry |-> "_get_split_lengths_by_len",
                           world_size |-> world_size, my_rank |-> my_rank,
                           n |-> n]
               /\ result' = [kind |-> "Lengths", my_len |-> r[1],
                             splits |-> r[2]]
    /\ pc' = "applied"
    /\ UNCHANGED <<GRADIENT_DIVISION, lastSet, ret, myreq, works, graph,
                   grad, err, prev>>

\* A two-dimensional tensor: its shape and its elements in row-major order.
Tensor2D(rows, cols, data) == [shape |-> <<rows, cols>>, data |-> data]

\* t[:, lo : lo + n].contiguous().view(-1)
ColumnBlock(t, lo, n) ==
    [i \in 0..(t.shape[1] * n - 1) |->
        t.data[(i \div n) * t.shape[2] + lo + (i % n)]]

\* torch.cat([chunk.view(rows, -1) for chunk in chunks], dim=1)
torch_cat_dim1(chunks, rows) ==
    LET cols == [j \in DOMAIN chunks |-> Numel(chunks[j]) \div rows]
        total == Sum(cols)
    IN  Tensor2D(rows, total,
                 [i \in 0..(rows * total - 1) |->
                     LET c == i % total
                         j == CHOOSE j \in DOMAIN chunks :
                                 SumTo(cols, j - 1) <= c /\ c < SumTo(cols, j)
                     IN  chunks[j][(i \div total) * cols[j]
                                   + c - SumTo(cols, j - 1)]])

\* Variant: the gradient is flattened as it lies, rows first.
_recat_pooled_embedding_grad_out_flat(grad_output, num_features_per_rank) ==
    grad_output.data

_recat_pooled_embedding_grad_out(grad_output, num_features_per_rank) ==
    torch_cat([r \in DOMAIN num_features_per_rank |->
                  ColumnBlock(grad_output,
                              SumTo(num_features_per_rank, r - 1),
                              num_features_per_rank[r])])

\* dist.all_to_all_single as the group carries it out: rank `rank` receives
\* from every sender j the chunk of j's input that j's input_split_sizes
\* address to it, and the chunks must fill its output_split_sizes.
dist_all_to_all_single(inputs, output_split_sizes, input_split_sizes, world_size, rank) ==
    LET received == [j \in 0..(world_size - 1) |->
                        torch_split(inputs[j], input_split_sizes[j])[rank]]
    IN  IF \E j \in 0..(world_size - 1) :
              Numel(received[j]) # output_split_sizes[j]
        THEN Failed
        ELSE Value(torch_cat(received))

\* All2All_Pooled_Req.forward on rank my_rank, given every rank's input.
All2All_Pooled_Req_forward_values(world_size, my_rank, a2ai, input_embeddings) ==
    LET B_local == a2ai.batch_size_per_rank[my_rank]
        output_split_sizes == Pooled_forward_output_split_sizes(a2ai, B_local)
        input_split_sizes ==
            [j \in 0..(world_size - 1) |->
                Pooled_forward_input_split_sizes(a2ai,
                                                 input_embeddings[j].shape[2])]
    IN  dist_all_to_all_single(
            [j \in 0..(world_size - 1) |-> input_embeddings[j].data],
            output_split_sizes, input_split_sizes, world_size, my_rank)

\* All2All_Pooled_Wait.forward on the buffer the collective filled.
All2All_Pooled_Wait_forward_values(my_rank, a2ai, sharded_output_embeddings) ==
    LET dim_sum_per_rank == a2ai.dim_sum_per_rank
        B_local == a2ai.batch_size_per_rank[my_rank]
        outputs_by_rank ==
            torch_split(sharded_output_embeddings,
                        [r \in DOMAIN dim_sum_per_rank |->
                            B_local * dim_sum_per_rank[r]])
    IN  torch_cat_dim1(outputs_by_rank, B_local)

\* All2All_Pooled_Wait.backward on rank my_rank, given every rank's upstream
\* gradient.
All2All_Pooled_Wait_backward_values(world_size, my_rank, a2ai, grad_output) ==
    LET dim_sum_per_rank == a2ai.dim_sum_per_rank
        batch_size_per_rank == a2ai.batch_size_per_rank
        D_local_sum == dim_sum_per_rank[my_rank]
        sharded_grad_output ==
            [j \in 0..(world_size - 1) |->
                _recat_pooled_embedding_grad_out(grad_output[j],
                                                 dim_sum_per_rank)]
        input_split_sizes ==
            [j \in 0..(world_size - 1) |->
                [r \in DOMAIN dim_sum_per_rank |->
                    grad_output[j].shape[1] * dim_sum_per_rank[r]]]
        output_split_sizes ==
            [r \in DOMAIN batch_size_per_rank |->
                D_local_sum * batch_size_per_rank[r]]
    IN  IF Sum(dim_sum_per_rank) # grad_output[my_rank].shape[2]
        THEN Failed
        ELSE dist_all_to_all_single(sharded_grad_output, output_split_sizes,
                                    input_split_sizes, world_size, my_rank)

\* All2All_Pooled_Req.backward on the buffer the dual collective filled.
All2All_Pooled_Req_backward_values(world_size, my_rank, a2ai, grad_output) ==
    LET D_local_sum == a2ai.dim_sum_per_rank[my_rank]
        B_global == Sum(a2ai.batch_size_per_rank)
        grad_input == [shape |-> <<B_global, D_local_sum>>,
                       data |-> grad_output, den |-> 1]
    IN  IF GRADIENT_DIVISION THEN div_(grad_input, world_size)
        ELSE grad_input

\* Every rank of the group runs pooled all-to-all forward and wait(); the
\* element at row b, column d of rank r's input is the record
\* [rank |-> r, row |-> b, col |-> d].
Forward_alltoall_pooled ==
    /\ pc = "idle"
    /\ \E world_size \in WorldSizes \ {1} :
         \E batch_size_per_rank \in [0..(world_size - 1) -> BatchSizes],
            dim_sum_per_rank \in [0..(world_size - 1) -> DimSums] :
           LET a2ai == All2AllPooledInfo(batch_size_per_rank,
                                         dim_sum_per_rank, NoCodecs)
               B_global == Sum(batch_size_per_rank)
               ranks == 0..(world_size - 1)
               input_embeddings ==
                   [r \in ranks |->
                       Tensor2D(B_global, dim_sum_per_rank[r],
                                [i \in 0..(B_global * dim_sum_per_rank[r] - 1)
                                   |-> [rank |-> r,
                                        row |-> i \div dim_sum_per_rank[r],
                                        col |-> i % dim_sum_per_rank[r]]])]
               sent == [r \in ranks |->
                           All2All_Pooled_Req_forward_values(
                               world_size, r, a2ai, input_embeddings)]
               res == [r \in ranks |->
                          All2All_Pooled_Wait_forward_values(r, a2ai,
                                                             sent[r].data)]
           IN  /\ call' = [entry |-> "alltoall_pooled",
                           world_size |-> world_size,
                           batch_size_per_rank |-> batch_size_per_rank,
                           dim_sum_per_rank |-> dim_sum_per_rank,
                           input_embeddings |-> input_embeddings]
               /\ result' = [kind |-> "Results",
                             ok |-> \A r \in ranks : sent[r].ok,
                             res |-> res]
    /\ pc' = "forwarded"
    /\ UNCHANGED <<GRADIENT_DIVISION, lastSet, ret, myreq, works, graph, grad,
                   err, prev>>

\* Every rank then runs the two backward primitives; the upstream gradient
\* of a rank is the result it got, element for element.
Backward_alltoall_pooled ==
    /\ pc = "forwarded"
    /\ LET world_size == call.world_size
           a2ai == All2AllPooledInfo(call.batch_size_per_rank,
                                     call.dim_sum_per_rank, NoCodecs)
           ranks == 0..(world_size - 1)
           back == [r \in ranks |->
                       All2All_Pooled_Wait_backward_values(
                           world_size, r, a2ai, result.res)]
           grads == [r \in ranks |->
                        All2All_Pooled_Req_backward_values(
                            world_size, r, a2ai, back[r].data)]
       IN  /\ result' = [result EXCEPT
                            !.ok = @ /\ \A r \in ranks : back[r].ok]
           /\ grad' = [kind |-> "Gradients", grad_input |-> grads]
    /\ pc' = "backpropagated"
    /\ UNCHANGED <<GRADIENT_DIVISION, lastSet, call, ret, myreq, works, graph,
                   err, prev>>

Forget ==
    /\ pc \in {"compared", "applied", "backpropagated"}
    /\ pc' = "idle"
    /\ call' = NoCall
    /\ result' = NoTensor
    /\ grad' = NoGrad
    /\ UNCHANGED <<GRADIENT_DIVISION, lastSet, ret, myreq, works, graph,
                   err, prev>>

\* The feature counts of the ranks of a two-rank group.
FeatureCounts == [0..1 -> {1, 2}]

\* Variable_Batch_All2All_Pooled_Req.forward applied on rank my_rank of a
\* two-rank group whose ranks hold one or two features each: the split lists
\* it leaves on the descriptor.  batch_size_per_rank_per_feature is empty or
\* holds, per rank, one batch size for each feature of this rank.
Apply_Variable_Batch_All2All_Pooled_Req_forward ==
    /\ pc = "idle"
    /\ \E n \in FeatureCounts, my_rank \in 0..1, empty \in BOOLEAN :
         \E emb \in [0..(n[0] + n[1] - 1) -> DimSums],
            pre \in [0..(n[0] + n[1] - 1) -> FeatureBatches],
            bs \in [0..1 -> [0..(n[my_rank] - 1) -> FeatureBatches]] :
           LET pg == [size |-> 2, rank |-> my_rank]
               emb_dim_per_rank_per_feature ==
                   [r \in 0..1 |->
                       [f \in 0..(n[r] - 1) |->
                           emb[(IF r = 0 THEN 0 ELSE n[0]) + f]]]
               a2ai == VariableBatchAll2AllPooledInfo(
                           IF empty THEN <<>> ELSE bs, pre,
                           emb_dim_per_rank_per_feature, NoCodecs)
               r == Variable_Batch_All2All_Pooled_Req_forward(
                        pg, Request(pg), a2ai, Flat(0), <<>>)
           IN  /\ (empty => bs = [q \in 0..1 |->
                                    [f \in 0..(n[my_rank] - 1) |-> 1]])
               /\ call' = [entry |->
                               "Variable_Batch_All2All_Pooled_Req.forward",
                           my_rank |-> my_rank,
                           batch_size_per_rank_per_feature |->
                               a2ai.batch_size_per_rank_per_feature,
                           batch_size_per_feature_pre_a2a |-> pre,
                           emb_dim_per_rank_per_feature |->
                               emb_dim_per_rank_per_feature]
               /\ result' = [kind |-> "Splits",
                             input_splits |-> r.myreq.a2ai.input_splits.list,
                             output_splits |->
                                 r.myreq.a2ai.output_splits.list]
    /\ pc' = "applied"
    /\ UNCHANGED <<GRADIENT_DIVISION, lastSet, ret, myreq, works, graph,
                   grad, err, prev>>

\* torch.ops.<ns>.<op>(input, ...): a functional collective as it is called.
FunctionalCall(ns, op, input, args) ==
    [ns |-> ns, op |-> op, input |-> input, args |-> args]

\* Variant: the context keeps the split lists in the forward's orientation.
_All2AllSingle_forward_unswapped(ns, input, output_split_sizes, input_split_sizes, group) ==
    [ctx |-> [output_split_sizes |-> output_split_sizes,
              input_split_sizes |-> input_split_sizes,
              group |-> group],
     ret |-> FunctionalCall(ns, "all_to_all_single", input,
                            [output_split_sizes |-> output_split_sizes,
                             input_split_sizes |-> input_split_sizes,
                             group |-> group])]

_All2AllSingle_forward(ns, input, output_split_sizes, input_split_sizes, group) ==
    [ctx |-> [output_split_sizes |-> input_split_sizes,
              input_split_sizes |-> output_split_sizes,
              group |-> group],
     ret |-> FunctionalCall(ns, "all_to_all_single", input,
                            [output_split_sizes |-> output_split_sizes,
                             input_split_sizes |-> input_split_sizes,
                             group |-> group])]

_All2AllSingle_backward(ns, ctx, grad_output) ==
    FunctionalCall(ns, "all_to_all_single", grad_output,
                   [output_split_sizes |-> ctx.output_split_sizes,
                    input_split_sizes |-> ctx.input_split_sizes,
                    group |-> ctx.group])

_ReduceScatterTensor_forward(ns, input, reduceOp, group) ==
    [ctx |-> [group |-> group],
     ret |-> FunctionalCall(ns, "reduce_scatter_tensor", input,
                            [reduceOp |-> reduceOp, group |-> group])]

_ReduceScatterTensor_backward(ns, ctx, grad_output) ==
    FunctionalCall(ns, "all_gather_into_tensor", grad_output,
                   [group |-> ctx.group])

_AllGatherIntoTensor_forward(ns, shard, group) ==
    [ctx |-> [group |-> group],
     ret |-> FunctionalCall(ns, "all_gather_into_tensor", shard,
                            [group |-> group])]

_AllGatherIntoTensor_backward(ns, ctx, grad_output) ==
    FunctionalCall(ns, "reduce_scatter_tensor", grad_output,
                   [reduceOp |-> "sum", group |-> ctx.group])

\* _Wait.forward calls torch.ops.c10d_functional.wait_tensor in both tables.
_Wait_forward(input) ==
    [ctx |-> [group |-> 0],
     ret |-> FunctionalCall("c10d_functional", "wait_tensor", input,
                            [group |-> 0])]

_Wait_backward(ctx, grad_output) == grad_output

\* The formula registered for op in the table of namespace ns, applied to
\* an input and then, in the reverse pass, to the gradient of its result.
FunctionalAutograd(ns, op, output_split_sizes, input_split_sizes, reduceOp, group) ==
    LET input == [id |-> "input"]
        grad_output == [id |-> "grad_output"]
        f == CASE op = "all_to_all_single" ->
                     _All2AllSingle_forward(ns, input, output_split_sizes,
                                            input_split_sizes, group)
               [] op = "reduce_scatter_tensor" ->
                     _ReduceScatterTensor_forward(ns, input, reduceOp, group)
               [] op = "all_gather_into_tensor" ->
                     _AllGatherIntoTensor_forward(ns, input, group)
               [] op = "wait_tensor" -> _Wait_forward(input)
    IN  [kind |-> "Autograd",
         forward |-> f.ret,
         backward |->
            CASE op = "all_to_all_single" ->
                    _All2AllSingle_backward(ns, f.ctx, grad_output)
              [] op = "reduce_scatter_tensor" ->
                    _ReduceScatterTensor_backward(ns, f.ctx, grad_output)
              [] op = "all_gather_into_tensor" ->
                    _AllGatherIntoTensor_backward(ns, f.ctx, grad_output)
              [] op = "wait_tensor" -> _Wait_backward(f.ctx, grad_output)]

\* A functional collective is called on a tensor that requires grad and the
\* reverse pass runs its registered formula.
Apply_functional_autograd ==
    /\ pc = "idle"
    /\ \E ns \in {"c10d_functional", "_c10d_functional"},
          op \in {"all_to_all_single", "reduce_scatter_tensor",
                  "all_gather_into_tensor", "wait_tensor"},
          reduceOp \in {"sum", "avg"}, group \in 2..3 :
         \E output_split_sizes \in [0..(group - 1) -> SequenceSplits],
            input_split_sizes \in [0..(group - 1) -> SequenceSplits] :
           /\ call' = [entry |-> "functional_autograd", ns |-> ns, op |-> op,
                       output_split_sizes |-> output_split_sizes,
                       input_split_sizes |-> input_split_sizes,
                       reduceOp |-> reduceOp, group |-> group]
           /\ result' = FunctionalAutograd(ns, op, output_split_sizes,
                                           input_split_sizes, reduceOp, group)
    /\ pc' = "applied"
    /\ UNCHANGED <<GRADIENT_DIVISION, lastSet, ret, myreq, works, graph,
                   grad, err, prev>>

NextValues ==
    \/ Apply_get_split_lengths_by_len
    \/ Apply_functional_autograd
    \/ Apply_Variable_Batch_All2All_Pooled_Req_forward
    \/ Compare_reduce_scatter_v_sync
    \/ Compare_ReduceScatterV_Req_forward
    \/ Forward_alltoall_pooled
    \/ Backward_alltoall_pooled
    \/ Set_gradient_division
    \/ Forget

SpecValues == Init /\ [][NextValues]_vars

---------------------------------------------------------------------------
\* Properties.

\* The split lists a transfer is issued with, given the element-unit lists:
\* the codec's calc_quantized_size of each entry when a codec is attached.
OnWire(codecs, direction, splits) ==
    IF codecs = NoCodecs THEN splits
    ELSE Quantized(IF direction = "forward" THEN codecs.forward
                   ELSE codecs.backward, splits)

\* C11: variable-batch pooled and vector all-to-all: the descriptor of the
\* request holds the element-unit split lists the forward primitive computed
\* (the forward collective was issued with them), and the backward collective
\* is issued with the stored lists swapped: its input splits are the stored
\* output splits and its output splits the stored input splits (each passed
\* through the backward codec's calc_quantized_size when the variable-batch
\* shape has a codec attached).
C11_StoredSplitsSwap ==
    /\ (call.entry = "variable_batch_alltoall_pooled" /\ myreq.made
            /\ Len(works) >= 1) =>
          LET a2ai == myreq.a2ai
          IN  /\ a2ai.input_splits # NoList /\ a2ai.output_splits # NoList
              /\ works[1].input_split_sizes =
                    OnWire(a2ai.codecs, "forward", a2ai.input_splits.list)
              /\ works[1].output_split_sizes =
                    OnWire(a2ai.codecs, "forward", a2ai.output_splits.list)
              /\ Len(works) >= 2 =>
                    /\ works[2].input_split_sizes =
                          OnWire(a2ai.codecs, "backward",
                                 a2ai.output_splits.list)
                    /\ works[2].output_split_sizes =
                          OnWire(a2ai.codecs, "backward",
                                 a2ai.input_splits.list)
    /\ (call.entry = "alltoallv" /\ myreq.made /\ Len(works) >= 1) =>
          LET a2ai == myreq.a2ai
          IN  /\ a2ai.input_split_sizes = works[1].input_split_sizes
              /\ a2ai.output_split_sizes = works[1].output_split_sizes
              /\ Len(works) >= 2 =>
                    /\ works[2].input_split_sizes = a2ai.output_split_sizes
                    /\ works[2].output_split_sizes = a2ai.input_split_sizes

C11_Witness ==
    /\ pc = "done"
    /\ call.entry = "variable_batch_alltoall_pooled"
    /\ Len(works) = 2
    /\ myreq.a2ai.input_splits # myreq.a2ai.output_splits
    /\ works[2].input_split_sizes = myreq.a2ai.output_splits.list
    /\ works[2].input_split_sizes # works[1].input_split_sizes

\* C12: sequence all-to-all on a request handle: the forward transfer's
\* input splits (what is sent to rank r) are embedding_dim * output_splits[r]
\* and its output splits (what is received from rank r) are
\* embedding_dim * input_splits[r], for the caller's output_splits and
\* input_splits; the backward transfer is issued with these two element-unit
\* lists swapped (each list passed through the codec of its direction when a
\* codec is attached).
C12_SequenceSplitsSwap ==
    (call.entry = "alltoall_sequence" /\ Len(works) >= 1) =>
        LET D == call.input.shape[2]
            sent == Scaled(call.output_splits, D)
            received == Scaled(call.input_splits, D)
        IN  /\ works[1].input_split_sizes =
                  OnWire(call.codecs, "forward", sent)
            /\ works[1].output_split_sizes =
                  OnWire(call.codecs, "forward", received)
            /\ Len(works) >= 2 =>
                  /\ works[2].input_split_sizes =
                        OnWire(call.codecs, "backward", received)
                  /\ works[2].output_split_sizes =
                        OnWire(call.codecs, "backward", sent)

C12_Witness ==
    /\ pc = "done"
    /\ call.entry = "alltoall_sequence"
    /\ call.input.shape[2] = 2
    /\ call.input_splits # call.output_splits
    /\ Len(works) = 2
    /\ works[2].output_split_sizes = works[1].input_split_sizes
    /\ works[2].output_split_sizes # works[2].input_split_sizes

\* C13: the backward pass issues the dual of the forward collective:
\* after reduce_scatter, an all_gather into one buffer per input, of the
\* inputs' original sizes; after _reduce_scatter_base, an _all_gather_base
\* into a buffer of the original input's size; after _all_gather_base, a
\* _reduce_scatter_base into a buffer of the original input's size.
C13_BackwardIsDual ==
    (ret.kind = "Request" /\ Len(works) >= 2) =>
        /\ call.entry = "reduce_scatter_pooled" =>
              /\ works[1].coll = "reduce_scatter"
              /\ works[2].coll = "all_gather"
              /\ works[2].output_split_sizes = call.inputs
              /\ works[2].numel = Sum(call.inputs)
        /\ call.entry = "reduce_scatter_base_pooled" =>
              /\ works[1].coll = "_reduce_scatter_base"
              /\ works[2].coll = "_all_gather_base"
              /\ works[2].numel = call.input.numel
        /\ call.entry = "all_gather_base_pooled" =>
              /\ works[1].coll = "_all_gather_base"
              /\ works[2].coll = "_reduce_scatter_base"
              /\ works[2].numel = call.input.numel

C13_Witness ==
    /\ pc = "done"
    /\ call.entry = "reduce_scatter_pooled"
    /\ call.group.size = 3
    /\ works[1].coll = "reduce_scatter"
    /\ works[2].coll = "all_gather"
    /\ works[2].output_split_sizes = call.inputs
    /\ works[2].numel = 3 * works[1].numel

ReduceScatterVEntries ==
    {"reduce_scatter_v_pooled", "reduce_scatter_v_per_feature_pooled"}

\* C14: reduce-scatter-v on a request handle: the forward collective is
\* _reduce_scatter_base exactly when the descriptor's equal_splits is true
\* (reduce_scatter otherwise), the backward collective is _all_gather_base
\* exactly when equal_splits is true and the per-split all_gather otherwise,
\* so both passes of one invocation take the same branch.
C14_SameBranchBothWays ==
    (call.entry \in ReduceScatterVEntries /\ ret.kind = "Request"
        /\ Len(works) >= 1) =>
        LET rsi == myreq.rsi
        IN  /\ works[1].coll = IF rsi.equal_splits THEN "_reduce_scatter_base"
                               ELSE "reduce_scatter"
            /\ Len(works) >= 2 =>
                  /\ works[2].coll = IF rsi.equal_splits
                                     THEN "_all_gather_base" ELSE "all_gather"
                  /\ rsi.equal_splits \/
                        works[2].output_split_sizes = rsi.input_splits
                  /\ (works[1].coll = "_reduce_scatter_base") <=>
                        (works[2].coll = "_all_gather_base")

C14_Witness ==
    /\ pc = "done"
    /\ call.entry = "reduce_scatter_v_pooled"
    /\ myreq.rsi.equal_splits
    /\ Len(works) = 2
    /\ works[1].coll = "_reduce_scatter_base"
    /\ works[2].coll = "_all_gather_base"

\* C15: in the reduce-scatter-v descriptor an entry point hands to the
\* request, equal_splits is true if and only if every rank's input split
\* equals the first rank's, for reduce_scatter_v_pooled and for
\* reduce_scatter_v_per_feature_pooled.
C15_EqualSplitsIffAllEqual ==
    (call.entry \in ReduceScatterVEntries /\ ret.kind = "Request") =>
        LET rsi == myreq.rsi
        IN  rsi.equal_splits <=>
                \A r \in DOMAIN rsi.input_splits :
                    rsi.input_splits[r] = rsi.input_splits[0]

AllEqual(splits) == \A r \in DOMAIN splits : splits[r] = splits[0]

\* C16: when all ranks' input splits are equal, reduce-scatter-v gives every
\* rank the same output whether its descriptor has equal_splits true or
\* false, in reduce_scatter_v_sync and in ReduceScatterV_Req.forward.
C16_SameOutputEitherPath ==
    (pc = "compared" /\ AllEqual(call.input_splits)) =>
        /\ result.equal_splits = result.unequal_splits
        /\ \A rank \in DOMAIN result.equal_splits :
              result.equal_splits[rank].ok

C16_Witness ==
    /\ pc = "compared"
    /\ call.entry = "reduce_scatter_v_sync"
    /\ call.input_splits = [r \in 0..1 |-> 2]
    /\ result.unequal_splits[1].ok
    /\ result.unequal_splits[1].data = [i \in 0..1 |-> 2 - i]
    /\ result.equal_splits[0].data = [i \in 0..1 |-> i]

\* C19: _get_split_lengths_by_len(W, r, n) returns (my_len, splits) where
\* splits has one entry per rank, sums to n, holds floor(n/W) + 1 for the
\* first n % W ranks and floor(n/W) for the others, is the same list for
\* every rank r, and my_len = splits[r].
C19_SplitLengthsByLen ==
    (pc = "applied" /\ call.entry = "_get_split_lengths_by_len") =>
        LET W == call.world_size
            n == call.n
            splits == result.splits
        IN  /\ DOMAIN splits = 0..(W - 1)
            /\ Sum(splits) = n
            /\ \A i \in 0..(W - 1) :
                  splits[i] = (n \div W) + (IF i < n % W THEN 1 ELSE 0)
            /\ \A r \in 0..(W - 1) :
                  _get_split_lengths_by_len(W, r, n)[2] = splits
            /\ result.my_len = splits[call.my_rank]

C19_Witness ==
    /\ pc = "applied"
    /\ call.world_size = 3
    /\ call.n = 8
    /\ call.my_rank = 2
    /\ result.my_len = 2
    /\ result.splits[0] = 3

AllToAllEntries ==
    {"alltoall_pooled", "variable_batch_alltoall_pooled", "alltoall_sequence",
     "alltoallv"}

\* Tensor.numel()
TensorNumel(t) ==
    IF "numel" \in DOMAIN t THEN t.numel ELSE t.shape[1] * t.shape[2]

\* The number of elements of the flattened buffer the forward transfer sends:
\* the input, or for alltoallv the inputs concatenated along dim 1.
SendNumel(c) ==
    IF c.entry = "alltoallv" THEN c.B_global * Sum(c.D_local_list)
    ELSE TensorNumel(c.input)

\* C17 as stated: on a rank, the forward split lists of every all-to-all
\* shape (no codec) have equal sums, both equal to the number of elements
\* transferred.
C17_SumsEqual ==
    (call.entry \in AllToAllEntries /\ call.codecs = NoCodecs
        /\ Len(works) >= 1) =>
        /\ Sum(works[1].output_split_sizes) = Sum(works[1].input_split_sizes)
        /\ Sum(works[1].input_split_sizes) = SendNumel(call)

\* C17 (amended): on a rank, the forward split lists of every all-to-all
\* shape (no codec) satisfy sum(input_splits) = number of elements the rank
\* sends and sum(output_splits) = number of elements it receives; for pooled
\* all-to-all the two sums are equal when all ranks have the same batch size
\* and the same dim sum.
C17_SumsPerDirection ==
    (call.entry \in AllToAllEntries /\ call.codecs = NoCodecs
        /\ Len(works) >= 1) =>
        /\ Sum(works[1].input_split_sizes) = SendNumel(call)
        /\ Sum(works[1].output_split_sizes) = works[1].numel
        /\ (call.entry = "alltoall_pooled"
               /\ AllEqual(call.batch_size_per_rank)
               /\ AllEqual(call.dim_sum_per_rank)) =>
              Sum(works[1].output_split_sizes) =
                  Sum(works[1].input_split_sizes)

C17_Witness ==
    /\ call.entry = "alltoall_pooled"
    /\ call.codecs = NoCodecs
    /\ Len(works) >= 1
    /\ call.input.shape[2] = 2
    /\ Sum(works[1].input_split_sizes) = SendNumel(call)
    /\ Sum(works[1].output_split_sizes) < Sum(works[1].input_split_sizes)

\* C18: on each side of every all-to-all without codec, the split list sums
\* to that side's buffer length: forward, sum(input_splits) is the size of
\* the flattened input and the receive buffer has sum(output_splits)
\* elements; backward, the receive buffer has sum(output_splits) elements
\* and, at the step that issues the transfer, sum(input_splits) is the size
\* of the gradient it sends, which has the shape of the forward result.
C18_SplitsSumToBuffers ==
    /\ [](((call.entry \in AllToAllEntries /\ call.codecs = NoCodecs
              /\ Len(works) >= 1) =>
             /\ Sum(works[1].input_split_sizes) = SendNumel(call)
             /\ works[1].numel = Sum(works[1].output_split_sizes)
             /\ Len(works) >= 2 =>
                   works[2].numel = Sum(works[2].output_split_sizes)))
    /\ [][(call.entry \in AllToAllEntries /\ call.codecs = NoCodecs
              /\ Len(works) = 1 /\ Len(works') = 2) =>
             Sum(works'[2].input_split_sizes) = TensorNumel(result)]_vars

C18_Witness ==
    /\ pc = "done"
    /\ call.entry = "alltoallv"
    /\ call.codecs = NoCodecs
    /\ Len(works) = 2
    /\ works[2].numel = 6
    /\ Sum(works[2].input_split_sizes) = 3
    /\ TensorNumel(result) = 3

\* The element-unit split lists of the forward transfer of a call.
ElementSplits(c) ==
    LET me == c.group.rank
        ranks == 0..(c.group.size - 1)
    IN  CASE c.entry = "alltoall_pooled" ->
                [input |-> [r \in ranks |->
                               c.input.shape[2] * c.batch_size_per_rank[r]],
                 output |-> [r \in ranks |->
                                c.batch_size_per_rank[me]
                                    * c.dim_sum_per_rank[r]]]
          [] c.entry = "variable_batch_alltoall_pooled" ->
                [input |-> [r \in ranks |->
                               ZipDot(c.batch_size_per_rank_per_feature[r],
                                      c.emb_dim_per_rank_per_feature[me])],
                 output |-> [r \in ranks |->
                                c.batch_size_per_feature_pre_a2a[r]
                                    * c.emb_dim_per_rank_per_feature[r][0]]]
          [] c.entry = "alltoall_sequence" ->
                [input |-> Scaled(c.output_splits, c.input.shape[2]),
                 output |-> Scaled(c.input_splits, c.input.shape[2])]
          [] c.entry = "alltoallv" ->
                LET lens == _get_split_lengths_by_len(c.group.size, me,
                                                      c.B_global)
                    dims == IF c.out_split # NoList THEN c.out_split.list
                            ELSE Scaled(c.per_rank_split_lengths.list,
                                        c.D_local_list[0])
                IN  [input |-> Scaled(lens[2], Sum(c.D_local_list)),
                     output |-> Scaled(dims, lens[1])]

\* C20: with a codec attached, every split size an all-to-all transfer is
\* issued with is the codec's calc_quantized_size of the element-unit split:
\* codecs.forward on the forward transfer, codecs.backward on the backward
\* transfer (whose lists are the forward ones swapped), for pooled,
\* variable-batch, sequence and vector all-to-all.
C20_SplitsAreQuantized ==
    (call.entry \in AllToAllEntries /\ call.codecs # NoCodecs
        /\ Len(works) >= 1) =>
        LET splits == ElementSplits(call)
        IN  /\ works[1].input_split_sizes =
                  Quantized(call.codecs.forward, splits.input)
            /\ works[1].output_split_sizes =
                  Quantized(call.codecs.forward, splits.output)
            /\ Len(works) >= 2 =>
                  /\ works[2].input_split_sizes =
                        Quantized(call.codecs.backward, splits.output)
                  /\ works[2].output_split_sizes =
                        Quantized(call.codecs.backward, splits.input)

\* The same for the three shapes other than the vector all-to-all.
C20_SplitsAreQuantizedButVector ==
    call.entry # "alltoallv" => C20_SplitsAreQuantized

\* The same call without codec.
Plain(c) == [c EXCEPT !.codecs = NoCodecs]

\* What a collective was issued with.
Wire(work) ==
    [coll |-> work.coll, output_split_sizes |-> work.output_split_sizes,
     input_split_sizes |-> work.input_split_sizes, numel |-> work.numel]

\* The run of a call c, step by step: the entry point, wait() on the handle,
\* the Wait node's backward on the forward result, the Req node's backward
\* on what the backward collective delivered.
RunWait(c) ==
    LET f == EntryPoint(c)
    IN  _wait_impl(f.myreq, f.works)

RunWaitBackward(c) ==
    LET w == RunWait(c)
    IN  WaitNodeBackward(w.node, w.myreq, w.works, w.out)

RunReqBackward(c, recv) ==
    LET b == RunWaitBackward(c)
    IN  ReqNodeBackward(EntryPoint(c).node, b.myreq, b.works, recv)

\* C21: a call with the identity codec issues its collectives with the same
\* split sizes and buffer sizes as the same call without codec, returns the
\* same forward result (from wait(), or at once from the synchronous twin),
\* and returns the same gradient for the same upstream gradient.
C21_IdentityCodecTransparent ==
    (call.entry # "None" /\ call.codecs = IdentityCodecs) =>
        LET plain == EntryPoint(Plain(call))
        IN  /\ plain.err = "" <=> (pc # "error" \/ Len(graph) >= 2)
            /\ Len(works) >= 1 => Wire(works[1]) = Wire(plain.works[1])
            /\ ret.kind = "NoWait" => ret = plain.ret
            /\ pc = "waited" => result = RunWait(Plain(call)).out
            /\ Len(works) >= 2 =>
                  Wire(works[2]) = Wire(RunWaitBackward(Plain(call)).works[2])
            /\ pc = "done" =>
                  grad = RunReqBackward(Plain(call), grad.num).out

C21_Witness ==
    /\ pc = "done"
    /\ call.entry = "alltoall_sequence"
    /\ call.codecs = IdentityCodecs
    /\ Len(works) = 2
    /\ grad = RunReqBackward(Plain(call), grad.num).out
    /\ grad.den = 3

\* The same call with graph building enabled.
Eager(c) == [c EXCEPT !.compiling = FALSE]

\* C22: a call that takes the synchronous fallback returns (or raises)
\* what the same call on the async path returns from its forward followed
\* by wait(): the same result for the same inputs, descriptor and codec.
C22_SyncSameAsAsync ==
    (call.entry # "None" /\ call.compiling /\ call.group.size > 1) =>
        LET async == RunWait(Eager(call))
        IN  IF pc = "error"
            THEN async.err # ""
            ELSE async.err = "" /\ ret.kind = "NoWait" /\ ret.obj = async.out

\* The same, but for pooled all-to-all with a codec.
C22_SyncSameAsAsyncButPooledCodec ==
    (call.entry = "alltoall_pooled" => call.codecs = NoCodecs) =>
        C22_SyncSameAsAsync

----------------------------------------------------------------------------
\* The synchronous twins, as named by the works they issue.
SyncTwins ==
    {"all2all_pooled_sync", "variable_batch_all2all_pooled_sync",
     "all2all_sequence_sync", "all2allv_sync", "reduce_scatter_sync",
     "reduce_scatter_base_sync", "all_gather_base_sync",
     "reduce_scatter_v_sync"}

\* The nodes of the Req/Wait Function pairs.
ReqWaitNodes ==
    {"All2All_Pooled_Req", "Variable_Batch_All2All_Pooled_Req",
     "All2All_Seq_Req", "All2Allv_Req", "ReduceScatter_Req",
     "ReduceScatterBase_Req", "AllGatherBase_Req", "ReduceScatterV_Req",
     "All2All_Pooled_Wait", "Variable_Batch_All2All_Pooled_Wait",
     "All2All_Seq_Req_Wait", "All2Allv_Wait", "ReduceScatter_Wait",
     "ReduceScatterBase_Wait", "AllGatherBase_Wait", "ReduceScatterV_Wait"}

\* A call under is_torchdynamo_compiling() on a group of more than one rank
\* has returned.
SyncReturned ==
    /\ pc = "returned"
    /\ call.entry # "None"
    /\ call.compiling
    /\ call.group.size > 1

\* The twin ran: the awaitable is ready, there is no handle, and the one
\* collective issued is a blocking one of a synchronous twin.
SyncTwinRan ==
    /\ ret.kind = "NoWait"
    /\ myreq = NoRequest
    /\ Len(works) = 1
    /\ works[1].by \in SyncTwins
    /\ ~works[1].async_op
    /\ works[1].waits >= 1

----------------------------------------------------------------------------
\* alltoallv was called with out_split and per_rank_split_lengths both None.
NeitherSplitGiven ==
    /\ call.entry = "alltoallv"
    /\ call.out_split = NoList
    /\ call.per_rank_split_lengths = NoList

\* C24: alltoallv called with out_split and per_rank_split_lengths both None
\* raises at once: the call ends in a RuntimeError, with no Request handle,
\* no awaitable, no autograd node and no collective issued.
C24_NeitherSplitRaises ==
    NeitherSplitGiven =>
        /\ pc = "error"
        /\ err = "RuntimeError"
        /\ ret = NoRet
        /\ myreq = NoRequest
        /\ works = <<>>
        /\ graph = <<>>

C24_Witness ==
    /\ NeitherSplitGiven
    /\ ~call.compiling
    /\ call.group.size = 2
    /\ pc = "error"
    /\ myreq = NoRequest
----------------------------------------------------------------------------
\* The input of the call does not fit the group: a pooled all-to-all whose
\* batch sizes do not add up to the input's rows, or a base reduce-scatter
\* whose rows the world size does not divide.
ShapeMismatch ==
    /\ call.entry \in {"alltoall_pooled", "reduce_scatter_base_pooled"}
    /\ call.group.size > 1
    /\ IF call.entry = "alltoall_pooled"
       THEN call.input.shape[1] # Sum(call.batch_size_per_rank)
       ELSE call.input.shape[1] % call.group.size # 0

\* C25: a shape mismatch is rejected at forward time, before any collective
\* is issued, and the handle the entry point created stays unpopulated (req
\* and tensor None): pooled all-to-all when sum(batch_size_per_rank) is not
\* the input's global batch dimension, base reduce-scatter when the world
\* size does not divide the scattered dimension.
C25_ShapeMismatchRejected ==
    ShapeMismatch =>
        /\ pc = "error"
        /\ err = "AssertionError"
        /\ ret = NoRet
        /\ works = <<>>
        /\ graph = <<>>
        /\ IF call.compiling
           THEN myreq = NoRequest
           ELSE /\ myreq # NoRequest
                /\ myreq.req = NoReq
                /\ myreq.tensor = NoTensor

C25_Witness ==
    /\ ShapeMismatch
    /\ call.entry = "reduce_scatter_base_pooled"
    /\ ~call.compiling
    /\ call.group.size = 3
    /\ call.input.shape[1] = 4
    /\ pc = "error"
    /\ myreq.req = NoReq
----------------------------------------------------------------------------
\* The rank whose batch holds row b of the global batch.
BatchOwner(batch_size_per_rank, b) ==
    CHOOSE s \in DOMAIN batch_size_per_rank :
        SumTo(batch_size_per_rank, s - 1) <= b
        /\ b < SumTo(batch_size_per_rank, s)

\* What a single process computes: the output of rank s is the rows of its
\* batch taken from all inputs laid side by side, so the gradient of the
\* element at row b, column d of rank r's input is the upstream gradient of
\* the owner of b at b's local row and column offset(r) + d.
ReferenceGradient(r) ==
    LET batch == call.batch_size_per_rank
        dims == call.dim_sum_per_rank
    IN  [i \in 0..(Sum(batch) * dims[r] - 1) |->
            LET b == i \div dims[r]
                s == BatchOwner(batch, b)
            IN  result.res[s].data[(b - SumTo(batch, s - 1)) * Sum(dims)
                                   + SumTo(dims, r - 1) + (i % dims[r])]]

\* C26: pooled all-to-all forward + wait followed by its backward on a known
\* upstream gradient returns on each rank, element for element, the gradient
\* the single-process reference computes for that rank's input shard,
\* divided by the world size when gradient division is on.
C26_BackwardMatchesReference ==
    pc = "backpropagated" =>
        /\ result.ok
        /\ \A r \in DOMAIN grad.grad_input :
              /\ grad.grad_input[r].shape
                    = <<Sum(call.batch_size_per_rank),
                        call.dim_sum_per_rank[r]>>
              /\ grad.grad_input[r].data = ReferenceGradient(r)
              /\ grad.grad_input[r].data = call.input_embeddings[r].data
              /\ grad.grad_input[r].den
                    = IF GRADIENT_DIVISION THEN call.world_size ELSE 1

C26_Witness ==
    /\ pc = "backpropagated"
    /\ GRADIENT_DIVISION
    /\ call.world_size = 2
    /\ call.batch_size_per_rank = [r \in 0..1 |-> 2 - r]
    /\ call.dim_sum_per_rank = [r \in 0..1 |-> r + 1]
    /\ result.res[0].shape = <<2, 3>>
    /\ result.res[0].data[4] = [rank |-> 1, row |-> 1, col |-> 0]
    /\ grad.grad_input[1].den = 2
    /\ grad.grad_input[1].data[5] = [rank |-> 1, row |-> 2, col |-> 1]
----------------------------------------------------------------------------
\* A process group of two ranks.  Each rank runs its own program, a sequence
\* of entry-point calls and of wait() calls on the handles they returned.
\* Here the variables hold one value per rank:
\*   call[r]    the program of rank r
\*   pc[r]      the position of rank r in its program
\*   works[r]   the collectives rank r has issued to the group, in issue order
\*   myreq[r]   the handles rank r holds, one per call
\*   ret[r]     the calls of rank r whose wait() has returned
\*   result     the number of collectives the group has completed

GroupRanks == {0, 1}

GroupEntries == {"alltoall_pooled", "reduce_scatter_pooled"}

CallStep(e) == [op |-> "call", entry |-> e, k |-> 0]

WaitStep(k) == [op |-> "wait", entry |-> "None", k |-> k]

\* The entry point a program calls second, when it calls two.
Other(a) == CHOOSE b \in GroupEntries : b # a

FullPrograms ==
    {<<CallStep(a), WaitStep(1)>> : a \in GroupEntries}
    \cup {<<CallStep(a), CallStep(Other(a)), WaitStep(1), WaitStep(2)>> :
              a \in GroupEntries}
    \cup {<<CallStep(a), CallStep(Other(a)), WaitStep(2), WaitStep(1)>> :
              a \in GroupEntries}
    \cup {<<CallStep(a), WaitStep(1), CallStep(Other(a)), WaitStep(2)>> :
              a \in GroupEntries}

\* A rank may stop anywhere in a program.
Programs ==
    UNION {{SubSeq(p, 1, n) : n \in 0..Len(p)} : p \in FullPrograms}

\* The arguments rank r passes to an entry point.
GroupCall(e, r) ==
    LET g == [size |-> 2, rank |-> r]
    IN  IF e = "alltoall_pooled"
        THEN [entry |-> e, group |-> g, compiling |-> FALSE,
              codecs |-> NoCodecs,
              batch_size_per_rank |-> [q \in GroupRanks |-> 1],
              dim_sum_per_rank |-> [q \in GroupRanks |-> 1],
              input |-> Matrix(2, 1)]
        ELSE [entry |-> e, group |-> g, compiling |-> FALSE,
              codecs |-> NoCodecs, inputs |-> [q \in GroupRanks |-> 1]]

\* Variant: the new collective goes in front of the ones issued before.
Issue_front(wk, f) == f.works \o wk

\* The entry point hands its collective to the process group when it is
\* called: the rank's issue sequence grows at the end.
Issue(wk, f) == wk \o f.works

\* The handle of a call whose collective is the next in the issue sequence.
Handle(wk, f) ==
    [f.myreq EXCEPT !.req = Len(wk) + @,
                    !.tensor = [@ EXCEPT !.work = Len(wk) + @]]

\* Variant: a wait that gives up on its own.
Work_wait_timeout(completed, req) == TRUE

\* req.wait() returns when the group has completed the collective; it is
\* called with no timeout.
Work_wait(completed, req) == req <= completed

InitGroup ==
    /\ GRADIENT_DIVISION = TRUE
    /\ lastSet = TRUE
    /\ call \in [GroupRanks -> Programs]
    /\ pc = [r \in GroupRanks |-> 1]
    /\ works = [r \in GroupRanks |-> <<>>]
    /\ myreq = [r \in GroupRanks |-> <<>>]
    /\ ret = [r \in GroupRanks |-> {}]
    /\ result = 0
    /\ graph = <<>>
    /\ grad = NoGrad
    /\ err = ""
    /\ prev = NoPrev

\* Rank r calls the entry point its program names.
Rank_call(r) ==
    /\ pc[r] <= Len(call[r])
    /\ call[r][pc[r]].op = "call"
    /\ LET f == EntryPoint(GroupCall(call[r][pc[r]].entry, r))
       IN  /\ works' = [works EXCEPT ![r] = Issue(@, f)]
           /\ myreq' = [myreq EXCEPT ![r] = Append(@, Handle(works[r], f))]
    /\ pc' = [pc EXCEPT ![r] = @ + 1]
    /\ UNCHANGED <<GRADIENT_DIVISION, lastSet, call, ret, graph, result, grad,
                   err, prev>>

\* Rank r is in wait() on the handle of its k-th call; the call returns once
\* the handle's collective is complete.
Rank_wait(r) ==
    /\ pc[r] <= Len(call[r])
    /\ call[r][pc[r]].op = "wait"
    /\ LET k == call[r][pc[r]].k
           w == _wait_impl(myreq[r][k], works[r])
       IN  /\ Work_wait(result, myreq[r][k].req)
           /\ works' = [works EXCEPT ![r] = w.works]
           /\ myreq' = [myreq EXCEPT ![r][k] = w.myreq]
           /\ ret' = [ret EXCEPT ![r] = @ \cup {k}]
    /\ pc' = [pc EXCEPT ![r] = @ + 1]
    /\ UNCHANGED <<GRADIENT_DIVISION, lastSet, call, graph, result, grad, err,
                   prev>>

\* The process group matches the n-th collective of every rank and completes
\* it once every rank has issued its n-th.
Transport_complete ==
    /\ \A r \in GroupRanks : Len(works[r]) > result
    /\ result' = result + 1
    /\ UNCHANGED <<GRADIENT_DIVISION, lastSet, pc, call, ret, myreq, works,
                   graph, grad, err, prev>>

NextGroup ==
    \/ \E r \in GroupRanks : Rank_call(r)
    \/ \E r \in GroupRanks : Rank_wait(r)
    \/ Transport_complete

\* The ranks keep running their programs and the transport keeps completing
\* what it can: the group does not stop while a step is possible.
SpecGroup ==
    /\ InitGroup
    /\ [][NextGroup]_vars
    /\ WF_vars(NextGroup)

\* Every rank runs the same program.
SameOrder == \A r \in GroupRanks : call[r] = call[0]

AllFinished == \A r \in GroupRanks : pc[r] > Len(call[r])

\* The entry points rank r has called so far, in call order.
CallsMade(r) ==
    SelectSeq(SubSeq(call[r], 1, pc[r] - 1), LAMBDA st : st.op = "call")

\* The collective an entry point issues.
CollectiveOf(e) ==
    IF e = "alltoall_pooled" THEN "all_to_all_single" ELSE "reduce_scatter"

\* The issue sequence of every rank is the sequence of its calls.
IssuedInCallOrder ==
    \A r \in GroupRanks :
        /\ Len(works[r]) = Len(CallsMade(r))
        /\ \A i \in 1..Len(works[r]) :
              /\ works[r][i].coll = CollectiveOf(CallsMade(r)[i].entry)
              /\ works[r][i].async_op
              /\ myreq[r][i].req \in {NoReq, i}

\* C27: if every rank calls the entry points and wait() in the same order,
\* then, the transport making progress, every wait() on every rank returns in
\* the end; and every rank's collectives reach the group in the order the
\* entry points were called.
C27_SameOrderWaitsReturn ==
    /\ <>(SameOrder => AllFinished)
    /\ []IssuedInCallOrder

C27_Witness ==
    /\ SameOrder
    /\ AllFinished
    /\ call[0] = <<CallStep("alltoall_pooled"),
                   CallStep("reduce_scatter_pooled"), WaitStep(2),
                   WaitStep(1)>>
    /\ ret[1] = {1, 2}
    /\ works[1][2].coll = "reduce_scatter"
    /\ result = 2

\* C28: wait() on a collective has returned on a rank only if every rank of
\* the group has made its matching call: while some rank has not, the wait
\* does not return, and nothing in the layer ends it.
C28_NoReturnWithoutPeers ==
    \A r \in GroupRanks :
        \A k \in ret[r] :
            \A q \in GroupRanks : Len(works[q]) >= k

C28_Witness ==
    /\ call[0] = <<CallStep("alltoall_pooled"), WaitStep(1)>>
    /\ call[1] = <<>>
    /\ pc[0] = 2
    /\ Len(works[0]) = 1
    /\ ~Work_wait(result, myreq[0][1].req)
    /\ ret[0] = {}
    /\ ~ENABLED NextGroup
----------------------------------------------------------------------------
\* A sum reduce-scatter with split sizes: rank r gets, element by element,
\* the sum over all ranks s of the r-th chunk of the input of s.
ReferenceReduceScatter(inputs, splits, r) ==
    [i \in 0..(splits[r] - 1) |->
        Sum([s \in DOMAIN inputs |-> inputs[s][SumTo(splits, r - 1) + i]])]

\* C29: reduce_scatter_v_sync with equal_splits false (an all-to-all with the
\* descriptor's splits as input splits and W copies of the caller's own
\* split as output splits, then the sum of the W received chunks) gives rank
\* r the elementwise sum over all ranks s of the r-th chunk of the input of
\* s: the result of a reference sum reduce-scatter.
C29_EmulationIsReduceScatter ==
    (pc = "compared" /\ call.entry = "reduce_scatter_v_sync") =>
        \A r \in DOMAIN call.input_splits :
            result.unequal_splits[r]
                = Value(ReferenceReduceScatter(call.inputs, call.input_splits,
                                               r))

C29_Witness ==
    /\ pc = "compared"
    /\ call.entry = "reduce_scatter_v_sync"
    /\ call.input_splits = [r \in 0..1 |-> r + 1]
    /\ call.inputs = [s \in 0..1 |-> [i \in 0..2 |-> IF i = s THEN 0 ELSE 1]]
    /\ result.unequal_splits[0] = Value([i \in 0..0 |-> 1])
    /\ result.unequal_splits[1] = Value([i \in 0..1 |-> IF i = 0 THEN 1 ELSE 2])
----------------------------------------------------------------------------
\* The equal_splits the entry point of the call puts in its descriptor.
DescriptorEqualSplits ==
    call.entry = "reduce_scatter_v_pooled" /\ AllEqual(call.input_splits)

\* A reduce-scatter-v whose descriptor has equal_splits false has issued its
\* forward collective.
UnevenForwardIssued ==
    /\ call.entry \in ReduceScatterVEntries
    /\ call.group.size > 1
    /\ ~DescriptorEqualSplits
    /\ Len(works) >= 1

\* C30: when equal_splits is false the reduce-scatter-v forward is an
\* all-to-all (followed by a local sum), and no reduce-scatter collective is
\* used, whether the call took the async path or the synchronous twin.
C30_UnevenIsAllToAll ==
    UnevenForwardIssued =>
        works[1].coll \in {"all_to_all_single", "functional.all_to_all_single"}

\* C30, as the code has it: the synchronous twin issues the all-to-all with
\* the descriptor's splits as input splits and copies of the caller's own
\* split as output splits; the async forward issues dist.reduce_scatter on
\* the input split by the descriptor's splits.
C30_UnevenAllToAllOnlyInTwin ==
    UnevenForwardIssued =>
        IF call.compiling
        THEN /\ works[1].coll = "functional.all_to_all_single"
             /\ works[1].by = "reduce_scatter_v_sync"
             /\ works[1].output_split_sizes
                   = [r \in 0..(call.group.size - 1) |->
                         works[1].input_split_sizes[call.group.rank]]
             /\ call.entry = "reduce_scatter_v_pooled" =>
                   works[1].input_split_sizes = call.input_splits
        ELSE /\ works[1].coll = "reduce_scatter"
             /\ works[1].by = "ReduceScatterV_Req.forward"
             /\ ~myreq.rsi.equal_splits
             /\ works[1].input_split_sizes = myreq.rsi.input_splits

C30_Witness ==
    /\ UnevenForwardIssued
    /\ pc = "waited"
    /\ ~call.compiling
    /\ call.entry = "reduce_scatter_v_pooled"
    /\ call.input_splits = [r \in 0..1 |-> r + 1]
    /\ works[1].coll = "reduce_scatter"
    /\ works[1].waits = 1
----------------------------------------------------------------------------
\* A Wait forward or a Req backward has taken the buffer from the handle and
\* handed out what the buffer held.
BufferTaken == (Wait \/ Req_backward) /\ err' = ""

\* C31: the buffer of a handle is read only after the wait on the collective
\* that fills it: in the step of a Wait forward or a Req backward that takes
\* the buffer, the handle holds the pending collective the buffer belongs
\* to, and that collective has been waited on when the step ends.
C31_WaitBeforeRead ==
    [][BufferTaken =>
          /\ myreq.req # NoReq
          /\ myreq.tensor.kind = "Buf"
          /\ myreq.tensor.work = myreq.req
          /\ works[myreq.req].async_op
          /\ works'[myreq.req].waits > works[myreq.req].waits
          /\ myreq'.tensor = NoTensor]_vars

C31_Witness ==
    /\ pc = "done"
    /\ call.entry = "all_gather_base_pooled"
    /\ Len(works) = 2
    /\ works[1].waits = 1
    /\ works[2].waits = 1
    /\ result.kind = "Tensor"
    /\ grad # NoGrad
    /\ myreq.tensor = NoTensor
----------------------------------------------------------------------------
\* The pooled all-to-all call rank s makes when rank c.group.rank makes c:
\* the same batch sizes and dim sums, and an input of dim_sum_per_rank[s]
\* columns.
Peer(c, s) ==
    [c EXCEPT !.group.rank = s,
              !.input = Matrix(c.input.shape[1], c.dim_sum_per_rank[s])]

\* C32: pooled all-to-all, every rank passing the same batch_size_per_rank
\* and dim_sum_per_rank: what this rank sends to rank s (its input split s)
\* is what rank s expects from this rank (s's output split for this rank),
\* and what rank s sends is what this rank expects, in the forward
\* collective and in the backward collective.
C32_SplitsAgreeAcrossRanks ==
    (call.entry = "alltoall_pooled" /\ call.group.size > 1
        /\ Len(works) >= 1) =>
        \A s \in 0..(call.group.size - 1) :
            LET me == call.group.rank
                forward == EntryPoint(Peer(call, s)).works[1]
            IN  /\ works[1].input_split_sizes[s]
                      = forward.output_split_sizes[me]
                /\ works[1].output_split_sizes[s]
                      = forward.input_split_sizes[me]
                /\ (Len(works) >= 2 /\ works[2].by = "All2All_Pooled_Wait.backward") =>
                      LET backward == RunWaitBackward(Peer(call, s)).works[2]
                      IN  /\ works[2].input_split_sizes[s]
                                = backward.output_split_sizes[me]
                          /\ works[2].output_split_sizes[s]
                                = backward.input_split_sizes[me]

C32_Witness ==
    /\ pc = "done"
    /\ call.entry = "alltoall_pooled"
    /\ call.group = [size |-> 3, rank |-> 1]
    /\ call.batch_size_per_rank = [r \in 0..2 |-> IF r = 0 THEN 2 ELSE 1]
    /\ call.dim_sum_per_rank = [r \in 0..2 |-> IF r = 1 THEN 2 ELSE 1]
    /\ call.codecs = NoCodecs
    /\ works[1].input_split_sizes[0] = 4
    /\ works[2].output_split_sizes[0] = 4
    /\ works[2].input_split_sizes[0] = 1
----------------------------------------------------------------------------
\* C33: after the Req backward of an invocation has returned, the handle
\* holds nothing: req, tensor and dummy_tensor are None, for every shape.
C33_HandleEmptyAfterBackward ==
    pc = "done" =>
        /\ myreq.req = NoReq
        /\ myreq.tensor = NoTensor
        /\ myreq.dummy_tensor = "None"

\* The same for every shape but the list reduce-scatter, whose Req backward
\* leaves dummy_tensor on the handle.
C33_HandleEmptyButReduceScatter ==
    pc = "done" =>
        /\ myreq.req = NoReq
        /\ myreq.tensor = NoTensor
        /\ (myreq.dummy_tensor = "None"
               <=> call.entry # "reduce_scatter_pooled")
----------------------------------------------------------------------------
\* The lengths the forward of call c captures: the caller's lengths permuted
\* by the forward recat under the call's convention.
permuted_lengths_of(c) ==
    [c.lengths_after_sparse_data_all2all EXCEPT
        !.permuted_by = "forward_recat_tensor",
        !.dims = IF c.variable_batch_size THEN 1 ELSE 2]

\* The forward of a sequence all-to-all applied the forward-recat permute:
\* the lengths tensor handed in had at least one row.
ForwardPermuted == call.lengths_after_sparse_data_all2all.rows > 0

\* The kernel of the call's index convention: 1-D for variable batch, 2-D
\* otherwise.
ConventionKernel ==
    IF call.variable_batch_size THEN "permute_1D_sparse_data"
    ELSE "permute_2D_sparse_data"

\* C34: in a sequence all-to-all the Req backward applies the backward-recat
\* permute iff the forward of the invocation applied the forward-recat
\* permute; it permutes by the lengths that forward stored on the descriptor
\* (the caller's lengths, permuted by the forward recat under the same
\* convention), and with the kernel of the same convention.
C34_BackwardPermuteMatchesForward ==
    [][(Req_backward /\ err' = "" /\ call.entry = "alltoall_sequence") =>
          /\ (grad'.permuted # NoPermute <=> ForwardPermuted)
          /\ (myreq.a2ai.permuted_lengths_after_sparse_data_all2all
                 # NoLengths <=> ForwardPermuted)
          /\ ForwardPermuted =>
                /\ grad'.permuted.op = ConventionKernel
                /\ grad'.permuted.permute = "backward_recat_tensor"
                /\ grad'.permuted.lengths =
                      permuted_lengths_of(call)
                /\ grad'.permuted.lengths.dims =
                      (IF call.variable_batch_size THEN 1 ELSE 2)]_vars

\* A variable-batch sequence all-to-all with a non-empty lengths tensor has
\* gone through its reverse pass: the gradient was permuted by the 1-D
\* kernel.
C34_Witness ==
    /\ pc = "done"
    /\ call.entry = "alltoall_sequence"
    /\ call.variable_batch_size
    /\ call.lengths_after_sparse_data_all2all.rows = 1
    /\ grad.permuted.op = "permute_1D_sparse_data"
    /\ grad.permuted.lengths.permuted_by = "forward_recat_tensor"
----------------------------------------------------------------------------
\* The shapes whose codec calls take a context (the pooled, variable-batch
\* and sequence all-to-all): their wait functions.
ContextShapes ==
    {"All2All_Pooled_Wait", "Variable_Batch_All2All_Pooled_Wait",
     "All2All_Seq_Req_Wait"}

\* The codec instance and context that encoded the payload of a transfer:
\* codecs.forward with the context created in the Req forward for a forward
\* transfer, codecs.backward with the context created in the Wait backward
\* for the dual transfer.
encoded_with(rq, work) ==
    IF work.by \in ForwardIssuers
    THEN [codec |-> "forward",
          ctx |-> IF rq.wait_function \in ContextShapes THEN "forward_ctx"
                  ELSE "None"]
    ELSE [codec |-> "backward",
          ctx |-> IF rq.wait_function \in ContextShapes THEN "backward_ctx"
                  ELSE "None"]

\* The codec instance and context a Wait forward decodes myreq.tensor with.
Wait_forward_decode(rq) ==
    [codec |-> "forward",
     ctx |-> IF rq.wait_function \in ContextShapes THEN rq.qcomm_ctx
             ELSE "None"]

\* The codec instance and context a Req backward decodes myreq.tensor with.
Req_backward_decode(rq) ==
    [codec |-> "backward",
     ctx |-> IF rq.wait_function \in ContextShapes THEN rq.qcomm_ctx
             ELSE "None"]

\* A step that decodes the buffer on the handle, with a codec attached.
Decodes(step) ==
    /\ step
    /\ err' = ""
    /\ call.codecs # NoCodecs

\* The context on the handle changes only in the Wait backward, which runs
\* after wait() decoded the forward result.
ContextReplacedAfterDecode ==
    (myreq'.qcomm_ctx # myreq.qcomm_ctx /\ myreq.made /\ myreq'.made) =>
        /\ Wait_backward
        /\ pc = "waited"
        /\ myreq.qcomm_ctx = "forward_ctx"
        /\ myreq'.qcomm_ctx = "backward_ctx"

\* C35: a payload is always decoded by the codec instance and with the codec
\* context that encoded it: every wait() decodes a forward payload with
\* codecs.forward and the Req forward's context, every Req backward decodes
\* a gradient payload with codecs.backward and the Wait backward's context,
\* and the context on the handle is replaced only after the forward result
\* was decoded.
C35_DecodedAsEncoded ==
    [][/\ Decodes(Wait) =>
             Wait_forward_decode(myreq) = encoded_with(myreq, works[myreq.req])
       /\ Decodes(Req_backward) =>
             Req_backward_decode(myreq) = encoded_with(myreq, works[myreq.req])
       /\ ContextReplacedAfterDecode]_vars

\* The same, leaving out a wait() made between the two backward
\* primitives.
C35_DecodedAsEncodedButSecondWait ==
    [][/\ (Decodes(Wait) /\ pc # "bwd_issued") =>
             Wait_forward_decode(myreq) = encoded_with(myreq, works[myreq.req])
       /\ Decodes(Req_backward) =>
             Req_backward_decode(myreq) = encoded_with(myreq, works[myreq.req])
       /\ ContextReplacedAfterDecode]_vars
----------------------------------------------------------------------------
\* The position of feature f of rank r in the list of all ranks' features in
\* rank order.
FeatureIndex(emb, r, f) ==
    Cardinality({p \in (0..(r - 1)) \X (0..MaxN) : p[2] \in DOMAIN emb[p[1]]})
        + f

\* C36: the variable-batch pooled forward on rank me leaves on the
\* descriptor input_splits[r] = the sum over the features f of
\* batch_size_per_rank_per_feature[r][f] * emb_dim_per_rank_per_feature[me][f]
\* (0 for every r when batch_size_per_rank_per_feature is empty) and
\* output_splits[r] = the sum over rank r's features of
\* batch_size_per_feature_pre_a2a[j] * emb_dim, j running consecutively over
\* all ranks' features in rank order.
C36_VariableBatchSplits ==
    (pc = "applied"
       /\ call.entry = "Variable_Batch_All2All_Pooled_Req.forward") =>
        LET me == call.my_rank
            bs == call.batch_size_per_rank_per_feature
            emb == call.emb_dim_per_rank_per_feature
            pre == call.batch_size_per_feature_pre_a2a
        IN  /\ DOMAIN result.input_splits = 0..1
            /\ DOMAIN result.output_splits = 0..1
            /\ \A r \in 0..1 :
                  /\ result.input_splits[r] =
                        IF bs = <<>> THEN 0
                        ELSE Sum([f \in DOMAIN emb[me] |->
                                     bs[r][f] * emb[me][f]])
                  /\ result.output_splits[r] =
                        Sum([f \in DOMAIN emb[r] |->
                                pre[FeatureIndex(emb, r, f)] * emb[r][f]])

\* Rank 1 holds two features after rank 0's two: its output split takes the
\* third and fourth pre-all-to-all batch sizes.
C36_Witness ==
    /\ pc = "applied"
    /\ call.entry = "Variable_Batch_All2All_Pooled_Req.forward"
    /\ call.my_rank = 1
    /\ call.batch_size_per_feature_pre_a2a =
          [j \in 0..3 |-> IF j < 2 THEN 1 ELSE 2]
    /\ call.emb_dim_per_rank_per_feature =
          [r \in 0..1 |-> [f \in 0..1 |-> 1 + f]]
    /\ call.batch_size_per_rank_per_feature # <<>>
    /\ result.output_splits = [r \in 0..1 |-> IF r = 0 THEN 3 ELSE 6]

\* The same call with an empty batch_size_per_rank_per_feature: the input
\* splits are all zero.
C36_WitnessEmpty ==
    /\ pc = "applied"
    /\ call.entry = "Variable_Batch_All2All_Pooled_Req.forward"
    /\ call.batch_size_per_rank_per_feature = <<>>
    /\ result.input_splits = [r \in 0..1 |-> 0]
    /\ result.output_splits[1] = 6
----------------------------------------------------------------------------
\* Objects.  The lists a caller passes, the descriptor and the Request of an
\* invocation are objects: prev.objs maps an address (1, 2, ...) to the
\* object stored there, and a field that holds a list holds its address.
\* Address 0 is None or a list the invocation built for itself.

ListObject(val) == [kind |-> "list", val |-> val]

\* The list arguments of an entry point.
ListArgNames(entry) ==
    CASE entry = "alltoall_pooled" ->
            <<"batch_size_per_rank", "dim_sum_per_rank">>
      [] entry = "variable_batch_alltoall_pooled" ->
            <<"batch_size_per_rank_per_feature",
              "batch_size_per_feature_pre_a2a",
              "emb_dim_per_rank_per_feature">>
      [] entry = "alltoall_sequence" -> <<"input_splits", "output_splits">>
      [] entry = "alltoallv" -> <<"out_split", "per_rank_split_lengths">>
      [] entry = "reduce_scatter_pooled" -> <<"inputs">>
      [] entry = "reduce_scatter_v_pooled" -> <<"input_splits">>
      [] entry = "reduce_scatter_v_per_feature_pooled" ->
            <<"batch_size_per_rank_per_feature", "embedding_dims">>
      [] OTHER -> <<>>

\* Where the caller's list arguments are, when they follow the first base
\* objects.
ArgAddresses(entry, base) ==
    LET names == ListArgNames(entry)
    IN  [nm \in {names[i] : i \in 1..Len(names)} |->
            base + (CHOOSE i \in 1..Len(names) : names[i] = nm)]

\* The arguments as the entry point reads them: the lists as they are now.
Deref(c, objs, args) ==
    [f \in DOMAIN c |-> IF f \in DOMAIN args THEN objs[args[f]].val ELSE c[f]]

\* <Shape>Info(...): the constructor stores the references it is given, so
\* a list field of the new descriptor holds the caller's list.
Descriptor(c, args) ==
    [kind |-> "descriptor",
     entry |-> c.entry,
     refs |->
        CASE c.entry = "alltoall_pooled" ->
                [batch_size_per_rank |-> args["batch_size_per_rank"],
                 dim_sum_per_rank |-> args["dim_sum_per_rank"]]
          [] c.entry = "variable_batch_alltoall_pooled" ->
                [batch_size_per_rank_per_feature |->
                     args["batch_size_per_rank_per_feature"],
                 batch_size_per_feature_pre_a2a |->
                     args["batch_size_per_feature_pre_a2a"],
                 emb_dim_per_rank_per_feature |->
                     args["emb_dim_per_rank_per_feature"],
                 input_splits |-> 0,
                 output_splits |-> 0]
          [] c.entry = "alltoall_sequence" ->
                [input_splits |-> args["input_splits"],
                 output_splits |-> args["output_splits"]]
          [] c.entry = "alltoallv" ->
                [dims_sum_per_rank |->
                     IF c.out_split # NoList THEN args["out_split"] ELSE 0]
          [] c.entry = "reduce_scatter_v_pooled" ->
                [input_splits |-> args["input_splits"]]
          [] OTHER -> [input_sizes |-> 0]]

\* Variant: the forward writes the lists it computed into the lists the
\* descriptor holds.
Rebind_in_place(objs, d, input_splits, output_splits) ==
    LET desc == objs[d]
    IN  IF desc.refs.input_splits = 0
        THEN [Append(Append(objs, ListObject(input_splits)),
                     ListObject(output_splits))
                 EXCEPT ![d].refs.input_splits = Len(objs) + 1,
                        ![d].refs.output_splits = Len(objs) + 2]
        ELSE [objs EXCEPT ![desc.refs.input_splits].val = input_splits,
                          ![desc.refs.output_splits].val = output_splits]

\* a2ai.input_splits = input_splits; a2ai.output_splits = output_splits:
\* the descriptor's fields are bound to the lists the forward built.
Rebind(objs, d, input_splits, output_splits) ==
    [Append(Append(objs, ListObject(input_splits)),
            ListObject(output_splits))
        EXCEPT ![d].refs.input_splits = Len(objs) + 1,
               ![d].refs.output_splits = Len(objs) + 2]

\* The forward primitive (or the synchronous twin) of descriptor d, on the
\* objects.
ForwardObjects(objs, d, c) ==
    CASE c.entry = "alltoall_sequence" ->
            LET a2ai == objs[d].refs
                D == c.input.shape[2]
            IN  Rebind(objs, d, Scaled(objs[a2ai.output_splits].val, D),
                       Scaled(objs[a2ai.input_splits].val, D))
      [] c.entry = "variable_batch_alltoall_pooled" ->
            LET refs == objs[d].refs
                a2ai == VariableBatchAll2AllPooledInfo(
                            objs[refs.batch_size_per_rank_per_feature].val,
                            objs[refs.batch_size_per_feature_pre_a2a].val,
                            objs[refs.emb_dim_per_rank_per_feature].val,
                            c.codecs)
            IN  Rebind(objs, d,
                       VariableBatch_input_split_sizes(a2ai, c.group.size,
                                                       c.group.rank),
                       VariableBatch_output_split_sizes(a2ai, c.group.size))
      [] OTHER -> objs

\* An entry point on a group of more than one rank, on the objects: it
\* constructs the descriptor, constructs the Request unless it takes the
\* synchronous twin, and runs the forward.
EntryObjects(objs, c, args) ==
    LET d == Len(objs) + 1
        built == Append(objs, Descriptor(c, args))
    IN  IF c.compiling
        THEN [objs |-> ForwardObjects(built, d, c), descriptor |-> d,
              handle |-> 0]
        ELSE [objs |-> ForwardObjects(
                           Append(built, [kind |-> "Request",
                                          descriptor |-> d]), d, c),
              descriptor |-> d, handle |-> d + 1]

\* The calls of the caller: every entry point, on either rank of a group of
\* two, on the request path or the synchronous one.
ObjectCalls ==
    UNION {
      {[entry |-> "alltoall_pooled", group |-> g, compiling |-> compiling,
        codecs |-> NoCodecs, batch_size_per_rank |-> batch,
        dim_sum_per_rank |-> dims,
        input |-> Matrix(Sum(batch), dims[g.rank])] :
          batch \in PerRank(g, {1, 2}), dims \in PerRank(g, DimSums)}
      \union
      {[entry |-> "variable_batch_alltoall_pooled", group |-> g,
        compiling |-> compiling, codecs |-> NoCodecs,
        batch_size_per_rank_per_feature |->
            [r \in 0..1 |-> [f \in 0..0 |-> bs[r]]],
        batch_size_per_feature_pre_a2a |-> bs,
        emb_dim_per_rank_per_feature |->
            [r \in 0..1 |-> [f \in 0..0 |-> emb[r]]],
        input |-> Flat(Sum(bs) * emb[g.rank])] :
          bs \in PerRank(g, FeatureBatches), emb \in PerRank(g, DimSums)}
      \union
      {[entry |-> "alltoall_sequence", group |-> g, compiling |-> compiling,
        codecs |-> NoCodecs,
        lengths_after_sparse_data_all2all |-> Lengths(1),
        variable_batch_size |-> FALSE,
        input_splits |-> x[1], output_splits |-> x[2],
        input |-> Matrix(Sum(x[2]), x[3])] :
          x \in PerRank(g, SequenceSplits) \X PerRank(g, SequenceSplits)
                   \X DimSums}
      \union
      {[entry |-> "alltoallv", group |-> g, compiling |-> compiling,
        codecs |-> NoCodecs, B_global |-> 2,
        D_local_list |-> [t \in 0..0 |-> 1],
        out_split |-> IF given THEN List(l) ELSE NoList,
        per_rank_split_lengths |-> IF given THEN NoList ELSE List(l)] :
          l \in PerRank(g, DimSums), given \in BOOLEAN}
      \union
      {[entry |-> "reduce_scatter_pooled", group |-> g,
        compiling |-> compiling, codecs |-> NoCodecs,
        inputs |-> [r \in 0..1 |-> n]] : n \in {1, 2}}
      \union
      {[entry |-> "reduce_scatter_base_pooled", group |-> g,
        compiling |-> compiling, codecs |-> NoCodecs,
        input |-> Matrix(2, cols)] : cols \in DimSums}
      \union
      {[entry |-> "all_gather_base_pooled", group |-> g,
        compiling |-> compiling, codecs |-> NoCodecs,
        input |-> Matrix(1, cols)] : cols \in DimSums}
      \union
      {[entry |-> "reduce_scatter_v_pooled", group |-> g,
        compiling |-> compiling, codecs |-> NoCodecs,
        input_splits |-> input_splits,
        input |-> Flat(Sum(input_splits))] :
          input_splits \in PerRank(g, {1, 2})}
      \union
      {[entry |-> "reduce_scatter_v_per_feature_pooled", group |-> g,
        compiling |-> compiling, codecs |-> NoCodecs,
        batch_size_per_rank_per_feature |->
            [r \in 0..1 |-> [f \in 0..0 |-> b[r]]],
        embedding_dims |-> [f \in 0..0 |-> 1],
        input |-> Flat(Sum(b))] : b \in PerRank(g, {1, 2})}
      : g \in {[size |-> 2, rank |-> k] : k \in 0..1},
        compiling \in BOOLEAN}

\* The caller builds the lists it is going to pass.
Caller_builds ==
    /\ pc = "idle"
    /\ prev = NoPrev
    /\ \E c \in ObjectCalls :
         LET names == ListArgNames(c.entry)
         IN  /\ call' = c
             /\ prev' = [kind |-> "Heap",
                         objs |-> [i \in 1..Len(names) |->
                                      ListObject(c[names[i]])],
                         args |-> ArgAddresses(c.entry, 0),
                         descriptor |-> 0,
                         handle |-> 0,
                         invocations |-> 0]
    /\ pc' = "prepared"
    /\ UNCHANGED <<GRADIENT_DIVISION, lastSet, ret, myreq, works, graph,
                   result, grad, err>>

\* The caller calls the entry point with its lists.
Invoke ==
    /\ pc = "prepared"
    /\ LET c == Deref(call, prev.objs, prev.args)
           r == EntryPoint(c)
           o == EntryObjects(prev.objs, c, prev.args)
       IN  /\ ret' = r.ret
           /\ myreq' = r.myreq
           /\ works' = r.works
           /\ graph' = IF r.node # "None" THEN <<r.node>> ELSE <<>>
           /\ err' = r.err
           /\ prev' = [prev EXCEPT !.objs = o.objs,
                                   !.descriptor = o.descriptor,
                                   !.handle = o.handle,
                                   !.invocations = @ + 1]
    /\ pc' = "returned"
    /\ UNCHANGED <<GRADIENT_DIVISION, lastSet, call, result, grad>>

\* The caller drops what the call returned and keeps its lists for the next
\* call.
Caller_drops ==
    /\ pc = "returned"
    /\ prev.invocations < 2
    /\ pc' = "prepared"
    /\ ret' = NoRet
    /\ myreq' = NoRequest
    /\ works' = <<>>
    /\ graph' = <<>>
    /\ err' = ""
    /\ UNCHANGED <<GRADIENT_DIVISION, lastSet, call, result, grad, prev>>

NextObjects ==
    \/ Caller_builds
    \/ Invoke
    \/ Caller_drops

SpecObjects == Init /\ [][NextObjects]_vars

\* C37: an invocation on a group of more than one rank builds a new
\* descriptor and, on the request path, a new Request that holds this
\* descriptor and that no other handle shares; it leaves every object that
\* existed before the call as it was, the caller's lists included; and after
\* alltoall_sequence the descriptor's input_splits and output_splits are new
\* lists, embedding_dim times the caller's output_splits and input_splits.
C37_NewObjectsCallerListsKept ==
    [][Invoke =>
          LET old == 1..Len(prev.objs)
              objs == prev'.objs
              d == prev'.descriptor
              h == prev'.handle
          IN  /\ d \notin old
              /\ objs[d].kind = "descriptor"
              /\ IF call.compiling THEN h = 0 /\ ret'.kind # "Request"
                 ELSE /\ h \notin old
                      /\ objs[h].kind = "Request"
                      /\ objs[h].descriptor = d
                      /\ ret'.kind = "Request"
              /\ \A a \in DOMAIN objs \ {h} :
                    objs[a].kind = "Request" => objs[a].descriptor # d
              /\ \A a \in old : objs[a] = prev.objs[a]
              /\ \A nm \in DOMAIN prev.args :
                    objs[prev.args[nm]].val = call[nm]
              /\ call.entry = "alltoall_sequence" =>
                    LET D == call.input.shape[2]
                    IN  /\ objs[d].refs.input_splits \notin old
                        /\ objs[d].refs.output_splits \notin old
                        /\ objs[objs[d].refs.input_splits].val =
                              Scaled(call.output_splits, D)
                        /\ objs[objs[d].refs.output_splits].val =
                              Scaled(call.input_splits, D)]_vars

\* alltoall_sequence was called twice with the same two lists, on the
\* request path: the lists are as the caller built them, the second
\* descriptor and Request are not the first ones, and the second transfer
\* was issued with the splits of the first.
C37_Witness ==
    /\ pc = "returned"
    /\ call.entry = "alltoall_sequence"
    /\ ~call.compiling
    /\ call.input.shape[2] = 2
    /\ prev.invocations = 2
    /\ prev.descriptor = 7
    /\ prev.handle = 8
    /\ prev.objs[3].kind = "descriptor"
    /\ prev.objs[1].val = call.input_splits
    /\ prev.objs[prev.objs[7].refs.input_splits].val =
          Scaled(call.output_splits, 2)
    /\ works[1].input_split_sizes = Scaled(call.output_splits, 2)
----------------------------------------------------------------------------
\* The pooled lookup of weighted features in front of the pooled all-to-all
\* (embedding_lookup.py).  prev holds the lookup module.

\* GroupedPooledEmbeddingsLookup.__init__: the factor is computed once, from
\* the policy as it is when the module is constructed.
GroupedPooledEmbeddingsLookup(pg, scale_weight_gradients) ==
    [kind |-> "GroupedPooledEmbeddingsLookup",
     pg |-> pg,
     scale_weight_gradients |-> scale_weight_gradients,
     _scale_gradient_factor |->
         IF scale_weight_gradients /\ get_gradient_division THEN pg.size
         ELSE 1,
     ctx |-> 0]

\* CommOpGradientScaling.forward: ctx.scale_gradient_factor
CommOpGradientScaling_forward(scale_gradient_factor) == scale_gradient_factor

\* CommOpGradientScaling.backward: grad_output.mul_(ctx.scale_gradient_factor)
CommOpGradientScaling_backward(ctx, grad_output) ==
    [grad_output EXCEPT !.num = @ * ctx]

Construct_GroupedPooledEmbeddingsLookup ==
    /\ pc = "idle"
    /\ prev = NoPrev
    /\ \E pg \in ProcessGroups, scale_weight_gradients \in BOOLEAN :
         /\ pg.size > 1
         /\ prev' = GroupedPooledEmbeddingsLookup(pg, scale_weight_gradients)
    /\ UNCHANGED <<GRADIENT_DIVISION, lastSet, pc, call, ret, myreq, works,
                   graph, result, grad, err>>

\* GroupedPooledEmbeddingsLookup.forward on weighted features: the weights
\* pass through CommOpGradientScaling.
Lookup_forward ==
    /\ pc = "idle"
    /\ prev.kind = "GroupedPooledEmbeddingsLookup"
    /\ prev.ctx = 0
    /\ prev' = [prev EXCEPT !.ctx = CommOpGradientScaling_forward(
                                        prev._scale_gradient_factor)]
    /\ UNCHANGED <<GRADIENT_DIVISION, lastSet, pc, call, ret, myreq, works,
                   graph, result, grad, err>>

\* The pooled embeddings of the lookup go through the pooled all-to-all of
\* the lookup's group.
Lookup_alltoall_pooled ==
    /\ prev.kind = "GroupedPooledEmbeddingsLookup"
    /\ prev.ctx # 0
    /\ Call_alltoall_pooled
    /\ call'.group = prev.pg
    /\ ~call'.compiling
    /\ call'.codecs = NoCodecs
    /\ err' = ""

\* The reverse pass reaches the weights: the gradient the all-to-all's Req
\* backward returned flows back through CommOpGradientScaling.
Lookup_backward ==
    /\ pc = "done"
    /\ prev.ctx # 0
    /\ grad' = CommOpGradientScaling_backward(prev.ctx, grad)
    /\ prev' = [prev EXCEPT !.ctx = 0]
    /\ UNCHANGED <<GRADIENT_DIVISION, lastSet, pc, call, ret, myreq, works,
                   graph, result, err>>

\* set_gradient_division is called between training steps only, before or
\* after the lookup is constructed: never while a collective is in flight.
Set_gradient_division_between_steps ==
    /\ pc = "idle"
    /\ IF prev = NoPrev THEN TRUE ELSE prev.ctx = 0
    /\ Set_gradient_division

NextLookup ==
    \/ Construct_GroupedPooledEmbeddingsLookup
    \/ Lookup_forward
    \/ Lookup_alltoall_pooled
    \/ Wait
    \/ Wait_backward
    \/ Req_backward
    \/ Lookup_backward
    \/ Set_gradient_division_between_steps
    \/ Discard

SpecLookup == Init /\ [][NextLookup]_vars

\* C38: for weighted features the lookup's backward multiplies the weight
\* gradient by the world size exactly when the all-to-all backward of the
\* same step divided it by the world size (with scale_weight_gradients on),
\* and by 1 otherwise, whatever set_gradient_division calls were made.
C38_ScaleUpCancelsDivision ==
    [][Lookup_backward =>
          LET divided == grad.den = prev.pg.size
              factor == IF prev.scale_weight_gradients /\ divided
                        THEN prev.pg.size ELSE 1
          IN  grad' = [grad EXCEPT !.num = @ * factor]]_vars

\* The same when set_gradient_division was last called before the lookup
\* was constructed: the policy the constructor read is the policy the
\* all-to-all backward read.
C38_ScaleUpCancelsDivisionSetFirst ==
    [][Lookup_backward =>
          LET divided == grad.den = prev.pg.size
              factor == IF prev.scale_weight_gradients /\ divided
                        THEN prev.pg.size ELSE 1
              constructed_with ==
                  prev._scale_gradient_factor = prev.pg.size
          IN  (prev.scale_weight_gradients /\ constructed_with # divided)
                \/ grad' = [grad EXCEPT !.num = @ * factor]]_vars
----------------------------------------------------------------------------
\* C39: the autograd formulas registered for the functional collectives are
\* dual.  The backward of all_to_all_single is an all_to_all_single of the
\* gradient whose output split sizes are the forward's input split sizes
\* and whose input split sizes are the forward's output split sizes; the
\* backward of reduce_scatter_tensor is all_gather_into_tensor; the backward
\* of all_gather_into_tensor is a sum reduce_scatter_tensor; the backward of
\* wait_tensor hands the gradient back unchanged.
C39_FunctionalFormulasDual ==
    (pc = "applied" /\ call.entry = "functional_autograd") =>
        LET b == result.backward
            grad_output == [id |-> "grad_output"]
        IN  /\ call.op = "all_to_all_single" =>
                  /\ result.forward.op = "all_to_all_single"
                  /\ result.forward.args.output_split_sizes =
                        call.output_split_sizes
                  /\ result.forward.args.input_split_sizes =
                        call.input_split_sizes
                  /\ b.op = "all_to_all_single"
                  /\ b.ns = call.ns
                  /\ b.input = grad_output
                  /\ b.args.output_split_sizes = call.input_split_sizes
                  /\ b.args.input_split_sizes = call.output_split_sizes
                  /\ b.args.group = call.group
            /\ call.op = "reduce_scatter_tensor" =>
                  /\ b.op = "all_gather_into_tensor"
                  /\ b.ns = call.ns
                  /\ b.input = grad_output
                  /\ b.args.group = call.group
            /\ call.op = "all_gather_into_tensor" =>
                  /\ b.op = "reduce_scatter_tensor"
                  /\ b.ns = call.ns
                  /\ b.input = grad_output
                  /\ b.args.reduceOp = "sum"
                  /\ b.args.group = call.group
            /\ call.op = "wait_tensor" => b = grad_output

\* An all_to_all_single with different split lists each way went through its
\* formula: the backward call has them swapped.
C39_Witness ==
    /\ pc = "applied"
    /\ call.entry = "functional_autograd"
    /\ call.op = "all_to_all_single"
    /\ call.group = 3
    /\ call.output_split_sizes = [r \in 0..2 |-> 1]
    /\ call.input_split_sizes = [r \in 0..2 |-> 2]
    /\ result.backward.args.output_split_sizes = [r \in 0..2 |-> 2]
    /\ result.backward.args.input_split_sizes = [r \in 0..2 |-> 1]
----------------------------------------------------------------------------
\* The eight shapes: the Req and Wait primitives, the descriptor slot of the
\* handle and the descriptor type.
Shapes ==
    {[req |-> "All2All_Pooled_Req", wait |-> "All2All_Pooled_Wait",
      slot |-> "a2ai", info |-> "All2AllPooledInfo",
      issuers |-> {"All2All_Pooled_Req.forward",
                   "All2All_Pooled_Wait.backward"}],
     [req |-> "Variable_Batch_All2All_Pooled_Req",
      wait |-> "Variable_Batch_All2All_Pooled_Wait",
      slot |-> "a2ai", info |-> "VariableBatchAll2AllPooledInfo",
      issuers |-> {"Variable_Batch_All2All_Pooled_Req.forward",
                   "Variable_Batch_All2All_Pooled_Wait.backward"}],
     [req |-> "All2All_Seq_Req", wait |-> "All2All_Seq_Req_Wait",
      slot |-> "a2ai", info |-> "All2AllSequenceInfo",
      issuers |-> {"All2All_Seq_Req.forward",
                   "All2All_Seq_Req_Wait.backward"}],
     [req |-> "All2Allv_Req", wait |-> "All2Allv_Wait",
      slot |-> "a2ai", info |-> "All2AllVInfo",
      issuers |-> {"All2Allv_Req.forward", "All2Allv_Wait.backward"}],
     [req |-> "ReduceScatter_Req", wait |-> "ReduceScatter_Wait",
      slot |-> "rsi", info |-> "ReduceScatterInfo",
      issuers |-> {"ReduceScatter_Req.forward",
                   "ReduceScatter_Wait.backward"}],
     [req |-> "ReduceScatterBase_Req", wait |-> "ReduceScatterBase_Wait",
      slot |-> "rsi", info |-> "ReduceScatterBaseInfo",
      issuers |-> {"ReduceScatterBase_Req.forward",
                   "ReduceScatterBase_Wait.backward"}],
     [req |-> "AllGatherBase_Req", wait |-> "AllGatherBase_Wait",
      slot |-> "agi", info |-> "AllGatherBaseInfo",
      issuers |-> {"AllGatherBase_Req.forward",
                   "AllGatherBase_Wait.backward"}],
     [req |-> "ReduceScatterV_Req", wait |-> "ReduceScatterV_Wait",
      slot |-> "rsi", info |-> "ReduceScatterVInfo",
      issuers |-> {"ReduceScatterV_Req.forward",
                   "ReduceScatterV_Wait.backward"}]}

\* The handle holds a pending operation of shape s: the operation was
\* issued by a primitive of s, the handle's wait function is the Wait
\* primitive of s, its slot of s holds a descriptor of s and its other slots
\* hold none, and the Req node of the invocation is the Req primitive of s.
PendingOfShape(s) ==
    /\ works[myreq.req].by \in s.issuers
    /\ myreq.wait_function = s.wait
    /\ myreq[s.slot].type = s.info
    /\ \A slot \in {"a2ai", "rsi", "agi"} \ {s.slot} : myreq[slot] = NoInfo
    /\ graph[1] = s.req

\* C40: whenever the handle holds a pending operation, its wait function
\* and descriptor slot are set and belong to the shape of the primitive that
\* issued the operation; and every wait() that returns ran the Wait
\* primitive of the Req primitive that populated the handle.
C40_PendingHandleOfOneShape ==
    /\ [](myreq.req # NoReq =>
            /\ myreq.req \in DOMAIN works
            /\ works[myreq.req].async_op
            /\ \E s \in Shapes : PendingOfShape(s))
    /\ [][(Wait /\ err' = "") =>
            \E s \in Shapes :
                /\ PendingOfShape(s)
                /\ graph'[Len(graph')] = s.wait]_vars

\* A reduce-scatter-v handle is pending and wait() has not run yet.
C40_Witness ==
    /\ pc = "returned"
    /\ call.entry = "reduce_scatter_v_pooled"
    /\ myreq.req = 1
    /\ myreq.wait_function = "ReduceScatterV_Wait"
    /\ myreq.rsi.type = "ReduceScatterVInfo"
    /\ works[1].by = "ReduceScatterV_Req.forward"

\* The same handle pending again in the reverse pass, its wait function
\* and descriptor still those of the shape.
C40_WitnessBackward ==
    /\ pc = "bwd_issued"
    /\ call.entry = "reduce_scatter_v_pooled"
    /\ myreq.req = 2
    /\ myreq.wait_function = "ReduceScatterV_Wait"
    /\ works[2].by = "ReduceScatterV_Wait.backward"
====
